---- MODULE Spec2Model ----
(***************************************************************************)
(* A model of scanreader/tifffile.py: the directory chain (TiffPages), the  *)
(* two page records (TiffPage, TiffFrame), the header parse of TiffFile    *)
(* and the tile placement of the decode pipeline.                          *)
(*                                                                         *)
(* A file is described by a record `file` chosen in Init and never changed *)
(* afterwards: the directories of its chain, where they lie, how the chain *)
(* ends and what the directories hold.  Slots of the chain are 1-based in  *)
(* the sequences here; an index of the program is a slot position minus 1. *)
(***************************************************************************)
EXTENDS Integers, Sequences, FiniteSets, TLC

VARIABLES
    file,       \* the file under the reader (immutable)
    pages,      \* TiffPages.pages: offsets, TiffPage and TiffFrame records
    indexed,    \* TiffPages._indexed
    cached,     \* TiffPages._cached
    cache,      \* TiffPages._cache
    tiffpage,   \* TiffPages._tiffpage: "TiffPage" or "TiffFrame"
    keyframe,   \* TiffPages._keyframe: a TiffPage record
    last,       \* the last operation: its name, argument, outcome
    frame,      \* a TiffFrame that the caller constructed
    filebytes,  \* the bytes of the file that TiffFile opens
    tifffile,   \* the TiffFile: its descriptor or the error of __init__
    tilepage,   \* the tiled page that asarray decodes
    out,        \* the output array of asarray
    fill,       \* the byte in every cell of the array when the call began
    order,      \* the tiles decoded so far, in the order they completed
    running,    \* the tiles that threads of the pool are decoding
    maxworkers, \* the maxworkers of the asarray call
    phase,      \* where the asarray call is
    raised,     \* the error the asarray call raised to its caller
    futures,    \* the tiles whose future holds an error
    strippage,  \* the page in strips that asarray reads
    result,     \* what asarray returned or raised for the page in strips
    openfiles,  \* OpenFileCache.files: the refcount of every handle in it
    past,       \* OpenFileCache.past: the handles in the order of opening
    cachesize,  \* OpenFileCache.size
    closed,     \* the file handles that are closed
    holding,    \* the handle every reader has opened and not yet closed
    refs,       \* per handle, the open calls less the close calls
    closedby,   \* the handles that the cache has closed
    dirtags,    \* the tag names of the directory a TiffPage is made from
    tags,       \* TiffPage.tags: the names and the entries stored under them
    tagindex,   \* the entries of the directory that the loop has passed
    tagpc,      \* where TiffPage.__init__ is
    name,       \* the name the while loop tries for the entry
    segs,       \* the offsets and bytecounts buffered_read is called with
    readpc,     \* where the generator of buffered_read is
    nextseg,    \* buffered_read's i: the segments read so far
    buffered,   \* buffered_read's data: the segments not yet yielded
    bufsize,    \* buffered_read's size: the bytes in the buffer
    lock,       \* the thread that holds the lock of the file handle
    readlog,    \* the offsets read from, and who held the lock then
    stack,      \* the pages, maxworkers and closed handles of stack_pages
    stackpc,    \* where the stack_pages call is
    nextpage,   \* the pages of the stack handed to func so far
    working,    \* the page that func is reading, per worker
    fhlock      \* FileHandle._lock of the parent of the first page

chainvars == <<file, pages, indexed, cached, cache, tiffpage, keyframe, last>>
headvars == <<filebytes, tifffile>>
tilevars == <<tilepage, out, fill, order, running, maxworkers, phase, raised,
             futures>>
stripvars == <<strippage, result>>
cachevars == <<openfiles, past, cachesize, closed, holding, refs, closedby>>
tagvars == <<dirtags, tags, tagindex, tagpc, name>>
readvars == <<segs, readpc, nextseg, buffered, bufsize, lock, readlog>>
stackvars == <<stack, stackpc, nextpage, working, fhlock>>
late == <<readvars, stackvars>>
rest == <<stripvars, cachevars, tagvars, late>>
vars == <<chainvars, frame, headvars, tilevars, rest>>

----------------------------------------------------------------------------
(* Bounds of the model. *)

\* Short chains have 1..MaxDirs directories.
MaxDirs == 3
\* Long chains have HopThreshold-1 .. HopThreshold+LongSlack directories.
LongSlack == 1
\* The walk's page limit in the model; the program's default is 2**22.
MaxPagesCap == 104

(* Constants of the program. *)

\* _seek: "if lenpages == 100" starts the circular reference test.
HopThreshold == 100
\* _seek, TiffPage.__init__, TiffFrame._gettags: "if tagno > 4096".
MaxTagno == 4096

----------------------------------------------------------------------------
\* F applied to the value of x, with x evaluated once.
With(x, F(_)) == CHOOSE r \in { F(v) : v \in {x} } : TRUE

Min(a, b) == IF a < b THEN a ELSE b
Max(a, b) == IF a > b THEN a ELSE b

CeilDiv(a, b) == (a + b - 1) \div b

----------------------------------------------------------------------------
(* The file.                                                               *)

\* The first directory lies at Base; directories are Stride apart, and in
\* an uneven file those from the third on lie Gap further.
Base == 8
Stride == 10
Gap == 5

\* A tag count that cannot be read (the file ends inside the field).
Unreadable == -1

DirOffset(f, i) == Base + i * Stride + (IF f.uneven /\ i >= 2 THEN Gap ELSE 0)

\* The size of the file: the last directory, its data, and trailing bytes.
FileSize(f) == DirOffset(f, f.n - 1) + Stride + f.trail

\* The directory that lies at offset off, or -1 when none does.
\* (Only the two places that DirOffset can map to off are tried.)
DirIndex(f, off) ==
    With({i \in {(off - Base) \div Stride, (off - Base - Gap) \div Stride} :
             0 <= i /\ i < f.n /\ DirOffset(f, i) = off},
         LAMBDA found : IF found = {} THEN -1 ELSE CHOOSE i \in found : TRUE)

\* The tag count read at offset off.  Bytes that are no directory read as a
\* count above the ceiling.
TagnoAt(f, off) ==
    With(DirIndex(f, off), LAMBDA i :
        IF i = -1 THEN MaxTagno + 1
        ELSE IF i = f.special /\ f.kind = "tagno" THEN f.tagno
        ELSE 3)

\* The next-directory offset stored after the tags of the directory at off.
NextAt(f, off) ==
    With(DirIndex(f, off), LAMBDA i :
        IF i = -1 THEN 0
        ELSE IF i < f.n - 1 THEN DirOffset(f, i + 1)
        ELSE IF f.term = "zero" THEN 0
        ELSE IF f.term = "oob" THEN FileSize(f) + f.over
        ELSE DirOffset(f, f.target))

\* The ImageWidth tag of the directory at off.
WidthAt(f, off) ==
    IF DirIndex(f, off) = f.special /\ f.kind = "width" THEN 2 ELSE 1

\* The number of data offsets (StripOffsets/TileOffsets) of the directory.
NSegAt(f, off) ==
    IF DirIndex(f, off) = f.special /\ f.kind = "nseg" THEN 3 ELSE 2

----------------------------------------------------------------------------
(* Slots of the chain and the records in them.                             *)

\* A slot that holds a raw file offset.
OffsetSlot(o) ==
    [k |-> "off", off |-> o, index |-> -1, id |-> 0,
     kfid |-> 0, kfindex |-> -1, nseg |-> 0]

\* A TiffPage: object id, index in the chain, offset of its directory.
PageRec(id, index, o) ==
    [k |-> "page", off |-> o, index |-> index, id |-> id,
     kfid |-> 0, kfindex |-> -1, nseg |-> 0]

\* A TiffFrame: its keyframe (None is id 0) and its number of data offsets.
FrameRec(id, index, o, kfid, kfindex, nseg) ==
    [k |-> "frame", off |-> o, index |-> index, id |-> id,
     kfid |-> kfid, kfindex |-> kfindex, nseg |-> nseg]

\* "page if isinstance(page, inttypes) else page.offset"
SlotOffset(s) == s.off

\* No record: the value of a call that raised.
NoRec == OffsetSlot(-1)

\* "isinstance(page, inttypes)": None, which a slot holds as the offset of
\* a record that has none, is no integer.
IsInt(s) == s.k = "off" /\ s # NoRec

\* What "page if isinstance(page, inttypes) else page.offset" and the
\* fh.seek(offset) after it raise for the slot.
SeekError(s) ==
    IF s = NoRec
    THEN "AttributeError: 'NoneType' object has no attribute 'offset'"
    ELSE IF s.off = -1
    THEN "TypeError: an integer is required"
    ELSE "none"

\* Python's floor division, for a divisor that is not zero.
FloorDiv(a, b) ==
    IF b > 0 THEN a \div b ELSE (-a) \div (-b)

\* The sequence <<f(1), ..., f(n)>> of synthesized offset slots.
SynthSlots(first, unit, count) ==
    [i \in 1..(IF count > 1 THEN count - 1 ELSE 0) |->
        OffsetSlot(first + unit * i)]

\* pages[:-1]
Front(s) == SubSeq(s, 1, Len(s) - 1)

----------------------------------------------------------------------------
(* TiffPages._seek                                                         *)

\* A walk that starts over at the first slot.
WalkStartFirst(pgs) == SlotOffset(pgs[1])

\* "page = pages[-1]": the walk starts at the offset of the last slot.
WalkStart(pgs) == SlotOffset(pgs[Len(pgs)])

\* The ScanImage branch: one header is read, the stride is taken from the
\* first next-offset, and the remaining offsets are computed from it.
SeekScanImage(f, pgs, index) ==
    LET lenpages == Len(pgs)
        page     == pgs[lenpages]
        offset   == WalkStart(pgs)
        tagno    == TagnoAt(f, offset)
        parsed   == <<offset>>
    IN
    IF tagno = Unreadable \/ tagno > MaxTagno
    THEN [pages |-> Front(pgs), indexed |-> TRUE,
          err |-> IF tagno = Unreadable THEN "struct.error"
                  ELSE "TiffFileError: suspicious number of tags",
          pos |-> offset, parsed |-> parsed]
    ELSE IF page.k = "off"
    THEN [pages |-> pgs, indexed |-> FALSE, err |-> "AttributeError",
          pos |-> offset, parsed |-> parsed]
    ELSE LET next        == NextAt(f, offset)
             offset_unit == next - page.off
         IN
         IF offset_unit = 0
         THEN [pages |-> pgs, indexed |-> FALSE, err |-> "ZeroDivisionError",
               pos |-> offset, parsed |-> parsed]
         ELSE LET int_lenpages == FloorDiv(FileSize(f) - page.off, offset_unit)
                  newpages == pgs \o SynthSlots(page.off, offset_unit,
                                                int_lenpages)
              IN
              IF index >= lenpages
              THEN [pages |-> newpages, indexed |-> TRUE,
                    err |-> "IndexError: index out of range",
                    pos |-> offset, parsed |-> parsed]
              ELSE [pages |-> newpages, indexed |-> TRUE, err |-> "none",
                    pos |-> SlotOffset(newpages[
                              IF index < 0 THEN Len(newpages) + 1 + index
                              ELSE index + 1]),
                    parsed |-> parsed]

\* One round of the loop of the generic branch: it reads the header at
\* w.offset (the offset of the last slot) and appends the next offset.  w.go
\* is FALSE once the loop has ended (a break, a raise or the page limit).
WalkRound(f, w, index, maxpages) ==
    With(<<TagnoAt(f, w.offset), NextAt(f, w.offset)>>, LAMBDA hdr :
    LET lenpages == Len(w.pages)
        tagno    == hdr[1]
        next     == hdr[2]
        parsed1  == Append(w.parsed, w.offset)
        pgs1     == Append(w.pages, OffsetSlot(next))
    IN
    IF ~(lenpages < maxpages)
    THEN [w EXCEPT !.go = FALSE]
    ELSE IF tagno = Unreadable \/ tagno > MaxTagno
    THEN [w EXCEPT !.go = FALSE, !.pages = Front(w.pages), !.indexed = TRUE,
                   !.parsed = parsed1]
    ELSE IF next = 0 \/ next >= FileSize(f)
    THEN [w EXCEPT !.go = FALSE, !.indexed = TRUE, !.parsed = parsed1]
    ELSE IF 0 <= index /\ index < lenpages + 1
    THEN [w EXCEPT !.go = FALSE, !.pages = pgs1, !.parsed = parsed1]
    ELSE IF lenpages + 1 = HopThreshold
            /\ \E i \in 1..lenpages : SlotOffset(pgs1[i]) = next
    THEN [w EXCEPT !.go = FALSE, !.pages = pgs1, !.parsed = parsed1,
                   !.err = "TiffFileError: invalid circular IFD reference"]
    ELSE [w EXCEPT !.pages = pgs1, !.offset = next, !.parsed = parsed1])

\* 2^k rounds of the loop.  A round leaves a walk that has ended as it is,
\* so any number of rounds above maxpages is the whole loop.
RECURSIVE WalkRounds(_, _, _, _, _)
WalkRounds(f, w, index, maxpages, k) ==
    IF ~w.go THEN w
    ELSE IF k = 0 THEN WalkRound(f, w, index, maxpages)
    ELSE With(WalkRounds(f, w, index, maxpages, k - 1),
              LAMBDA w1 : WalkRounds(f, w1, index, maxpages, k - 1))

\* The least k with 2^k > n.
RECURSIVE Log2(_)
Log2(n) == IF n < 1 THEN 0 ELSE 1 + Log2(n \div 2)

WalkGeneric(f, pgs, offset, index, maxpages, parsed) ==
    With([pages |-> pgs, offset |-> offset, indexed |-> FALSE,
          err |-> "none", parsed |-> parsed, go |-> TRUE],
         LAMBDA w : WalkRounds(f, w, index, maxpages, Log2(maxpages)))

SeekGeneric(f, pgs, index, maxpages) ==
    With(WalkGeneric(f, pgs, WalkStart(pgs), index, maxpages, <<>>),
         LAMBDA w :
    LET lenpages == Len(w.pages) IN
    IF w.err # "none"
    THEN [pages |-> w.pages, indexed |-> w.indexed, err |-> w.err,
          pos |-> -1, parsed |-> w.parsed]
    ELSE IF index >= lenpages
    THEN [pages |-> w.pages, indexed |-> w.indexed,
          err |-> "IndexError: index out of range",
          pos |-> -1, parsed |-> w.parsed]
    ELSE [pages |-> w.pages, indexed |-> w.indexed, err |-> "none",
          pos |-> SlotOffset(w.pages[IF index < 0 THEN lenpages + 1 + index
                                     ELSE index + 1]),
          parsed |-> w.parsed])

\* _seek(index, maxpages): the chain after the call, whether it is indexed,
\* the error raised ("none": the call returned), the file position it leaves
\* and the offsets at which it read a directory header.
Seek(f, pgs, idxd, index, maxpages) ==
    IF Len(pgs) = 0
    THEN [pages |-> pgs, indexed |-> idxd,
          err |-> "IndexError: index out of range",
          pos |-> -1, parsed |-> <<>>]
    ELSE IF idxd \/ (0 <= index /\ index < Len(pgs))
    THEN IF index >= Len(pgs) \/ index < -Len(pgs)
         THEN [pages |-> pgs, indexed |-> idxd,
               err |-> "IndexError: list index out of range",
               pos |-> -1, parsed |-> <<>>]
         ELSE LET slot == pgs[IF index < 0 THEN Len(pgs) + 1 + index
                                  ELSE index + 1]
              IN  [pages |-> pgs, indexed |-> idxd, err |-> SeekError(slot),
                   pos |-> SlotOffset(slot), parsed |-> <<>>]
    ELSE IF f.scanimage
    THEN SeekScanImage(f, pgs, index)
    ELSE SeekGeneric(f, pgs, index, maxpages)

----------------------------------------------------------------------------
(* TiffPage.__init__, TiffFrame.__init__ and the keyframe of a TiffFrame   *)

\* TiffPage.imagewidth, len(TiffPage.dataoffsets), TiffPage.is_contiguous
ImageWidth(f, page) == WidthAt(f, page.off)
DataOffsets(f, page) == NSegAt(f, page.off)
IsContiguous(f, page) == f.contig

\* keyframe=None: the record of no object, whose id is 0.
None == NoRec

\* A frame that never counts as bound.
KeyframeNeverBound(fr) == FALSE

\* "self._keyframe is not None"
KeyframeBound(fr) == fr.kfid # 0

\* A frame that accepts a keyframe of any number of data offsets.
CountAccepted(f, fr, kf) == FALSE

\* "len(self._offsetscounts[0]) != len(keyframe.dataoffsets)"
CountDiffers(f, fr, kf) == fr.nseg # DataOffsets(f, kf)

\* TiffFrame.keyframe = kf, kf a TiffPage or None.  The frame after the
\* call and the error raised.
FrameSetKeyframe(f, fr, kf) ==
    IF fr.kfid = kf.id
    THEN [frame |-> fr, err |-> "none"]
    ELSE IF KeyframeBound(fr)
    THEN [frame |-> fr, err |-> "RuntimeError: cannot reset keyframe"]
    ELSE IF CountDiffers(f, fr, kf)
    THEN [frame |-> fr, err |-> "RuntimeError: incompatible keyframe"]
    ELSE [frame |-> [fr EXCEPT !.kfid = kf.id, !.kfindex = kf.index,
                               !.nseg = IF IsContiguous(f, kf) THEN 1
                                        ELSE @],
          err |-> "none"]

\* TiffPage(parent, index) with the file positioned at pos.
NewTiffPage(f, id, index, pos) ==
    LET tagno == TagnoAt(f, pos) IN
    IF tagno = Unreadable \/ tagno > MaxTagno
    THEN [rec |-> NoRec, err |-> "TiffFileError: corrupted tag list"]
    ELSE [rec |-> PageRec(id, index, pos), err |-> "none"]

\* A frame that accepts any width.
WidthAccepted(f, pos, kf) == FALSE

\* "code == 256 and keyframe.imagewidth != tag.value"
WidthDiffers(f, pos, kf) == WidthAt(f, pos) # ImageWidth(f, kf)

\* TiffFrame(parent, index, keyframe=kf) with the file positioned at pos,
\* kf a TiffPage or None.
NewTiffFrame(f, index, pos, kf) ==
    LET tagno == TagnoAt(f, pos) IN
    IF tagno = Unreadable \/ tagno > MaxTagno
    THEN [rec |-> NoRec, err |-> "TiffFileError: corrupted page list"]
    ELSE IF kf # None /\ WidthDiffers(f, pos, kf)
    THEN [rec |-> NoRec, err |-> "RuntimeError: incompatible keyframe"]
    ELSE IF kf = None
    THEN [rec |-> FrameRec(0, index, pos, 0, -1, NSegAt(f, pos)),
          err |-> "none"]
    ELSE LET r == FrameSetKeyframe(
                      f, FrameRec(0, index, pos, 0, -1, NSegAt(f, pos)), kf)
         IN [rec |-> IF r.err = "none" THEN r.frame ELSE NoRec,
             err |-> r.err]

\* The object ids in use: those of the records in the chain, of the
\* keyframes they are bound to and of the cursor.
LiveIds(pgs, kf) ==
    {pgs[i].id : i \in 1..Len(pgs)} \cup {pgs[i].kfid : i \in 1..Len(pgs)}
        \cup {kf.id, 0}

\* The id of a new object: one that no record in use has.
NewId(pgs, kf) ==
    LET live == LiveIds(pgs, kf) IN
    CHOOSE i \in 1..(Cardinality(live) + 1) :
        i \notin live /\ \A j \in 1..(i - 1) : j \in live

----------------------------------------------------------------------------
(* TiffPages.__len__ and TiffPages._getitem                                *)

\* __len__: the chain after the call, the count, the error raised.
PagesLen(f, pgs, idxd) ==
    IF idxd
    THEN [pages |-> pgs, indexed |-> idxd, err |-> "none",
          count |-> Len(pgs), parsed |-> <<>>]
    ELSE With(Seek(f, pgs, idxd, -1, MaxPagesCap), LAMBDA s :
         [pages |-> s.pages, indexed |-> s.indexed, err |-> s.err,
          count |-> IF s.err = "none" THEN Len(s.pages) ELSE -1,
          parsed |-> s.parsed])

\* The part of _getitem after the key is normalized: the cache lookup, then
\* _seek and the materialization of the record.
GetItemAt(f, pgs, idxd, key, cch, cls, kf, parsed0) ==
    LET hit == key < Len(pgs)
               /\ IF cch THEN ~IsInt(pgs[key + 1])
                  ELSE pgs[key + 1].k = "page"
                       \/ (cls = "TiffFrame" /\ pgs[key + 1].k = "frame")
    IN
    IF hit
    THEN [pages |-> pgs, indexed |-> idxd, err |-> "none",
          ret |-> pgs[key + 1], parsed |-> parsed0, index |-> key,
          made |-> FALSE]
    ELSE
    With(Seek(f, pgs, idxd, key, MaxPagesCap), LAMBDA s :
    IF s.err # "none"
    THEN [pages |-> s.pages, indexed |-> s.indexed, err |-> s.err,
          ret |-> NoRec, parsed |-> parsed0 \o s.parsed, index |-> key,
          made |-> FALSE]
    ELSE
    LET m == IF cls = "TiffPage"
             THEN NewTiffPage(f, NewId(s.pages, kf), key, s.pos)
             ELSE NewTiffFrame(f, key, s.pos, kf)
    IN
    IF m.err # "none"
    THEN [pages |-> s.pages, indexed |-> s.indexed, err |-> m.err,
          ret |-> NoRec, parsed |-> parsed0 \o s.parsed, index |-> key,
          made |-> TRUE]
    ELSE [pages |-> IF cch THEN [s.pages EXCEPT ![key + 1] = m.rec]
                    ELSE s.pages,
          indexed |-> s.indexed, err |-> "none", ret |-> m.rec,
          parsed |-> parsed0 \o s.parsed, index |-> key, made |-> TRUE])

\* _getitem(key): a negative key is taken modulo len(self), a key past the
\* end of an indexed chain is an IndexError.  index is the key after that,
\* made tells whether the record's constructor was called.
GetItem(f, pgs, idxd, key, cch, cls, kf) ==
    IF key < 0
    THEN With(PagesLen(f, pgs, idxd), LAMBDA l :
         IF l.err # "none"
         THEN [pages |-> l.pages, indexed |-> l.indexed, err |-> l.err,
               ret |-> NoRec, parsed |-> l.parsed, index |-> key,
               made |-> FALSE]
         ELSE GetItemAt(f, l.pages, l.indexed, key % l.count, cch, cls, kf,
                        l.parsed))
    ELSE IF idxd /\ key >= Len(pgs)
    THEN [pages |-> pgs, indexed |-> idxd,
          err |-> "IndexError: index out of range",
          ret |-> NoRec, parsed |-> <<>>, index |-> key, made |-> FALSE]
    ELSE GetItemAt(f, pgs, idxd, key, cch, cls, kf, <<>>)

----------------------------------------------------------------------------
(* The files of the model.                                                 *)

\* One directory of a file may be special: its tag count is at or above the
\* ceiling or unreadable, its width differs, or its number of data offsets
\* differs.  The first directory is never special: it was read when the
\* chain was constructed.
Kinds == {"tagno", "width", "nseg"}
Tagnos == {MaxTagno, MaxTagno + 1, Unreadable}

File(n, term, target, special, kind, tagno, scanimage, uneven, trail, contig) ==
    [n |-> n, term |-> term, target |-> target, over |-> 0,
     special |-> special, kind |-> kind, tagno |-> tagno,
     scanimage |-> scanimage, uneven |-> uneven, trail |-> trail,
     contig |-> contig]

\* Zero-terminated files whose directories lie evenly: every directory
\* alike, or one with a tag count above the ceiling, another width or
\* another number of data offsets.
SessionFiles ==
    UNION { { File(n, "zero", 0, -1, "tagno", MaxTagno, scanimage, FALSE, 0,
                   contig) :
                scanimage \in BOOLEAN, contig \in BOOLEAN }
            \cup
            { File(n, "zero", 0, special, kind, MaxTagno + 1, FALSE, FALSE,
                   0, FALSE) :
                special \in 1..(n - 1), kind \in {"tagno", "width"} }
            \cup
            { File(n, "zero", 0, special, "nseg", MaxTagno, FALSE, FALSE, 0,
                   contig) :
                special \in 1..(n - 1), contig \in BOOLEAN }
          : n \in 1..MaxDirs }

\* Files for the walk.  Short ones: every way the chain can end (a zero, an
\* offset at the end of the file, a reference back to a directory), with one
\* tag count at the ceiling, above it or unreadable, in both dialects and,
\* in the ScanImage dialect, with uneven directories or trailing bytes.
ShortWalkFiles ==
    UNION { { File(n, term, 0, special, "tagno", tagno, FALSE, FALSE, 0,
                   FALSE) :
                term \in {"zero", "oob"}, special \in 1..(n - 1),
                tagno \in Tagnos }
            \cup
            { File(n, term, 0, -1, "tagno", MaxTagno, FALSE, FALSE, 0,
                   FALSE) :
                term \in {"zero", "oob"} }
            \cup
            { File(n, "cycle", target, -1, "tagno", MaxTagno, FALSE, FALSE,
                   0, FALSE) :
                target \in 0..(n - 1) }
            \cup
            { File(n, "zero", 0, -1, "tagno", MaxTagno, TRUE, uneven, trail,
                   FALSE) :
                uneven \in {FALSE, n >= 3}, trail \in {0, Stride} }
            \cup
            { File(n, "zero", 0, special, "tagno", MaxTagno + 1, TRUE, FALSE,
                   0, FALSE) :
                special \in 1..(n - 1) }
          : n \in 1..MaxDirs }

\* Long ones: chains about as long as the hop threshold, ended by a zero or
\* by a reference back to the first or the last directory.
LongWalkFiles ==
    UNION { { File(n, "zero", 0, -1, "tagno", MaxTagno, scanimage, FALSE, 0,
                   FALSE) : scanimage \in BOOLEAN }
            \cup
            { File(n, "cycle", target, -1, "tagno", MaxTagno, FALSE, FALSE,
                   0, FALSE) : target \in {0, n - 2} }
          : n \in (HopThreshold - 1)..(HopThreshold + LongSlack) }

WalkFiles == ShortWalkFiles \cup LongWalkFiles

\* Keys the walk is driven with: the first slots, and those at the hop
\* threshold.
WalkKeys == (-1)..MaxDirs \cup (HopThreshold - 2)..(HopThreshold + LongSlack)

\* Keys and indices the operations are called with.
Keys == (-1)..MaxDirs

----------------------------------------------------------------------------
(* The operations of TiffPages.                                            *)

\* What the last operation was and did: its argument, the index the
\* argument stands for, the error raised ("none": it returned), the record
\* or the count returned, whether a record was constructed, and the offsets
\* at which _seek read a directory header.
Outcome(op, arg, index, err, ret, count, made, parsed) ==
    [op |-> op, arg |-> arg, index |-> index, err |-> err, ret |-> ret,
     count |-> count, made |-> made, parsed |-> parsed]

\* TiffPages.__init__ on a file with at least one directory.
InitChain(files) ==
    /\ file \in files
    /\ pages = <<PageRec(1, 0, Base)>>
    /\ indexed = FALSE
    /\ cached = FALSE
    /\ cache = FALSE
    /\ tiffpage = "TiffPage"
    /\ keyframe = PageRec(1, 0, Base)
    /\ last = Outcome("init", 0, 0, "none", NoRec, -1, FALSE, <<>>)

\* len(pages)
PageCount ==
    \E l \in {PagesLen(file, pages, indexed)} :
    /\ pages' = l.pages
    /\ indexed' = l.indexed
    /\ last' = Outcome("len", 0, 0, l.err, NoRec, l.count, FALSE, l.parsed)
    /\ UNCHANGED <<file, cached, cache, tiffpage, keyframe>>
    /\ UNCHANGED <<frame, headvars, tilevars, rest>>

\* pages[key] for an integer key
GetPage(key) ==
    /\ IF key = 0
       THEN /\ last' = Outcome("getitem", key, key, "none", pages[1], -1,
                               FALSE, <<>>)
            /\ UNCHANGED <<file, pages, indexed, cached, cache, tiffpage,
                           keyframe>>
       ELSE \E g \in {GetItem(file, pages, indexed, key, cache, tiffpage,
                               keyframe)} :
            /\ pages' = g.pages
            /\ indexed' = g.indexed
            /\ last' = Outcome("getitem", key, g.index, g.err, g.ret, -1,
                               g.made, g.parsed)
            /\ UNCHANGED <<file, cached, cache, tiffpage, keyframe>>
    /\ UNCHANGED <<frame, headvars, tilevars, rest>>

\* A keyframe that is not put into its slot.
KeyframeNotStored(pgs, index, page) == pgs

\* "always cache keyframes": pages[index] = self._keyframe
StoreKeyframe(pgs, index, page) == [pgs EXCEPT ![index + 1] = page]

\* A setter that loads the keyframe with the class in use.
ClassInUse(cls) == cls

\* "self._tiffpage = TiffPage": the class that loads the keyframe.
KeyframeClass(cls) == "TiffPage"

\* TiffPages.keyframe = index: the chain, the cursor, the class in use and
\* the error raised.  _getitem runs with the class set to TiffPage, and the
\* class is set back when it returns or raises.
KeyframeSet(f, pgs, idxd, index0, cch, cls, kf) ==
    With(IF index0 < 0 THEN PagesLen(f, pgs, idxd)
         ELSE [pages |-> pgs, indexed |-> idxd, err |-> "none",
               count |-> Len(pgs), parsed |-> <<>>], LAMBDA l :
    IF l.err # "none"
    THEN [pages |-> l.pages, indexed |-> l.indexed, keyframe |-> kf,
          tiffpage |-> cls, err |-> l.err, parsed |-> l.parsed,
          index |-> index0]
    ELSE
    LET index == IF index0 < 0 THEN index0 % l.count ELSE index0
        inlist == l.indexed \/ index < Len(l.pages)
    IN
    IF kf = None
    THEN [pages |-> l.pages, indexed |-> l.indexed, keyframe |-> kf,
          tiffpage |-> cls,
          err |-> "AttributeError: 'NoneType' object has no attribute 'index'",
          parsed |-> l.parsed, index |-> index]
    ELSE IF kf.index = index
    THEN [pages |-> l.pages, indexed |-> l.indexed, keyframe |-> kf,
          tiffpage |-> cls, err |-> "none", parsed |-> l.parsed,
          index |-> index]
    ELSE IF index = 0
    THEN [pages |-> l.pages, indexed |-> l.indexed, keyframe |-> l.pages[1],
          tiffpage |-> cls, err |-> "none", parsed |-> l.parsed,
          index |-> index]
    ELSE IF inlist /\ index >= Len(l.pages)
    THEN [pages |-> l.pages, indexed |-> l.indexed, keyframe |-> kf,
          tiffpage |-> cls, err |-> "IndexError: list index out of range",
          parsed |-> l.parsed, index |-> index]
    ELSE IF inlist /\ l.pages[index + 1].k = "page"
    THEN [pages |-> l.pages, indexed |-> l.indexed,
          keyframe |-> l.pages[index + 1], tiffpage |-> cls, err |-> "none",
          parsed |-> l.parsed, index |-> index]
    ELSE
    LET pgs1 == IF inlist /\ l.pages[index + 1].k = "frame"
                THEN [l.pages EXCEPT
                         ![index + 1] = OffsetSlot(l.pages[index + 1].off)]
                ELSE l.pages
        saved == cls
    IN
    With(GetItem(f, pgs1, l.indexed, index, cch, KeyframeClass(cls), kf),
         LAMBDA g :
    IF g.err # "none"
    THEN [pages |-> g.pages, indexed |-> g.indexed, keyframe |-> kf,
          tiffpage |-> saved, err |-> g.err,
          parsed |-> l.parsed \o g.parsed, index |-> index]
    ELSE [pages |-> StoreKeyframe(g.pages, index, g.ret),
          indexed |-> g.indexed, keyframe |-> g.ret, tiffpage |-> saved,
          err |-> "none", parsed |-> l.parsed \o g.parsed,
          index |-> index]))

\* pages.keyframe = index
SetKeyframe(index) ==
    \E r \in {KeyframeSet(file, pages, indexed, index, cache, tiffpage,
                          keyframe)} :
    /\ pages' = r.pages
    /\ indexed' = r.indexed
    /\ keyframe' = r.keyframe
    /\ tiffpage' = r.tiffpage
    /\ last' = Outcome("keyframe", index, r.index, r.err, r.keyframe, -1,
                       FALSE, r.parsed)
    /\ UNCHANGED <<file, cached, cache>>
    /\ UNCHANGED <<frame, headvars, tilevars, rest>>

\* A _clear that deletes the slots after the first.
ClearDeletes(pgs, fully) == SubSeq(pgs, 1, 1)

\* The first slot after slot 0 that holds None, at which the loop of
\* _clear(True) raises on "page.offset"; 0 when the loop runs to its end.
ClearStop(pgs, fully) ==
    IF fully /\ \E i \in 2..Len(pgs) : pgs[i] = NoRec
    THEN CHOOSE i \in 2..Len(pgs) :
             pgs[i] = NoRec /\ \A j \in 2..(i - 1) : pgs[j] # NoRec
    ELSE 0

ClearError(pgs, fully) ==
    IF ClearStop(pgs, fully) = 0 THEN "none"
    ELSE "AttributeError: 'NoneType' object has no attribute 'offset'"

\* A _clear that leaves every record in its slot.
ClearKeeps(pgs, fully) == pgs

\* _clear(fully): the slots after the first go back to raw offsets (all
\* records, or the TiffFrames only); a record whose offset is None stays.
Clear(pgs, fully) ==
    [i \in 1..Len(pgs) |->
        IF fully
        THEN IF /\ i > 1 /\ ~IsInt(pgs[i]) /\ pgs[i].off # -1
                /\ (ClearStop(pgs, fully) = 0 \/ i < ClearStop(pgs, fully))
             THEN OffsetSlot(pgs[i].off)
             ELSE pgs[i]
        ELSE IF pgs[i].k = "frame" /\ pgs[i].off # -1
             THEN OffsetSlot(pgs[i].off)
             ELSE pgs[i]]

\* pages.cache = value
SetCache(value) ==
    /\ IF cache /\ ~value /\ Len(pages) > 0
       THEN /\ pages' = Clear(pages, TRUE)
            /\ keyframe' = pages[1]
            /\ cached' = IF ClearError(pages, TRUE) = "none" THEN FALSE
                         ELSE cached
            /\ cache' = IF ClearError(pages, TRUE) = "none" THEN value
                        ELSE cache
            /\ last' = Outcome("cache", IF value THEN 1 ELSE 0, 0,
                               ClearError(pages, TRUE), NoRec, -1, FALSE,
                               <<>>)
       ELSE /\ cache' = value
            /\ last' = Outcome("cache", IF value THEN 1 ELSE 0, 0, "none",
                               NoRec, -1, FALSE, <<>>)
            /\ UNCHANGED <<pages, keyframe, cached>>
    /\ UNCHANGED <<file, indexed, tiffpage>>
    /\ UNCHANGED <<frame, headvars, tilevars, rest>>

\* pages.useframes = value
SetUseframes(value) ==
    /\ tiffpage' = IF value THEN "TiffFrame" ELSE "TiffPage"
    /\ last' = Outcome("useframes", IF value THEN 1 ELSE 0, 0, "none", NoRec,
                       -1, FALSE, <<>>)
    /\ UNCHANGED <<file, pages, indexed, cached, cache, keyframe>>
    /\ UNCHANGED <<frame, headvars, tilevars, rest>>

----------------------------------------------------------------------------
(* _load, _clear(False), __iter__ and _load_virtual_frames                 *)

\* TiffPage.hash, TiffFrame.hash: the fingerprint of the record, which for
\* a frame is that of its keyframe, and 0 with the error of a frame that
\* has none.  The image width is the one field of the fingerprint in which
\* the directories of the model differ.
Hash(f, rec) ==
    IF rec.k = "page" THEN [err |-> "none", value |-> WidthAt(f, rec.off)]
    ELSE IF rec = NoRec
    THEN [err |-> "AttributeError: 'NoneType' object has no attribute 'hash'",
          value |-> 0]
    ELSE IF rec.kfid = 0
    THEN [err |-> "RuntimeError: keyframe not set", value |-> 0]
    ELSE [err |-> "none",
          value |-> WidthAt(f, DirOffset(f, rec.kfindex))]

\* A check that takes every fingerprint as matching.
NeverMismatch(f, rec, validate) == [err |-> "none", value |-> 0]

\* "if validate and validate != page.hash: raise RuntimeError(...)"
Mismatch(f, rec, validate) ==
    IF validate = 0 THEN [err |-> "none", value |-> 0]
    ELSE IF Hash(f, rec).err # "none" THEN Hash(f, rec)
    ELSE IF validate # Hash(f, rec).value
    THEN [err |-> "RuntimeError: page hash mismatch", value |-> 0]
    ELSE [err |-> "none", value |-> 0]

\* _getitem(key, validate): _getitem as above with the comparison of the
\* fingerprint, which for a record that was constructed comes before
\* "pages[key] = page": the slot keeps the offset that _seek went to.
GetItemValidate(f, pgs, idxd, key, cch, cls, kf, validate) ==
    With(GetItem(f, pgs, idxd, key, cch, cls, kf), LAMBDA g :
    IF g.err # "none" \/ Mismatch(f, g.ret, validate).err = "none"
    THEN g
    ELSE [g EXCEPT !.err = Mismatch(f, g.ret, validate).err,
                   !.ret = NoRec,
                   !.pages = IF g.made /\ cch
                             THEN [g.pages EXCEPT ![g.index + 1] =
                                      OffsetSlot(g.ret.off)]
                             ELSE g.pages])

\* pages._getitem(key, validate) with a fingerprint of the caller
GetValidated(key, validate) ==
    \E g \in {GetItemValidate(file, pages, indexed, key, cache, tiffpage,
                               keyframe, validate)} :
    /\ pages' = g.pages
    /\ indexed' = g.indexed
    /\ last' = Outcome("validate", key, g.index, g.err, g.ret, validate,
                       g.made, g.parsed)
    /\ UNCHANGED <<file, cached, cache, tiffpage, keyframe>>
    /\ UNCHANGED <<frame, headvars, tilevars, rest>>

\* "for i, page in enumerate(pages)" of _load, from slot i on: every slot
\* that holds an offset gets its record.
RECURSIVE LoadSlots(_, _, _, _, _, _)
LoadSlots(f, pgs, i, cls, kfarg, cursor) ==
    IF i > Len(pgs) THEN [pages |-> pgs, err |-> "none"]
    ELSE IF ~IsInt(pgs[i])
    THEN LoadSlots(f, pgs, i + 1, cls, kfarg, cursor)
    ELSE With(IF cls = "TiffPage"
              THEN NewTiffPage(f, NewId(pgs, cursor), i - 1, pgs[i].off)
              ELSE NewTiffFrame(f, i - 1, pgs[i].off, kfarg), LAMBDA m :
         IF m.err # "none" THEN [pages |-> pgs, err |-> m.err]
         ELSE LoadSlots(f, [pgs EXCEPT ![i] = m.rec], i + 1, cls, kfarg,
                        cursor))

\* _load(keyframe): usekf is FALSE for keyframe=None.
LoadPages(f, pgs, idxd, cch, cchd, cls, kf, usekf) ==
    IF cchd
    THEN [pages |-> pgs, indexed |-> idxd, cached |-> cchd, err |-> "none",
          parsed |-> <<>>]
    ELSE With(PagesLen(f, pgs, idxd), LAMBDA s :
         IF s.err # "none" \/ ~cch
         THEN [pages |-> s.pages, indexed |-> s.indexed, cached |-> cchd,
               err |-> s.err, parsed |-> s.parsed]
         ELSE With(LoadSlots(f, s.pages, 1, cls,
                             IF usekf THEN kf ELSE None, kf), LAMBDA l :
              [pages |-> l.pages, indexed |-> s.indexed,
               cached |-> l.err = "none", err |-> l.err,
               parsed |-> s.parsed]))

\* pages._load(keyframe)
Load(usekf) ==
    \E l \in {LoadPages(file, pages, indexed, cache, cached, tiffpage,
                        keyframe, usekf)} :
    /\ pages' = l.pages
    /\ indexed' = l.indexed
    /\ cached' = l.cached
    /\ last' = Outcome("load", IF usekf THEN 1 ELSE 0, 0, l.err, NoRec, -1,
                       FALSE, l.parsed)
    /\ UNCHANGED <<file, cache, tiffpage, keyframe>>
    /\ UNCHANGED <<frame, headvars, tilevars, rest>>

\* pages._clear(fully)
ClearPages(fully) ==
    /\ pages' = Clear(pages, fully)
    /\ keyframe' = pages[1]
    /\ cached' = IF ClearError(pages, fully) = "none" THEN FALSE ELSE cached
    /\ last' = Outcome("clear", IF fully THEN 1 ELSE 0, 0,
                       ClearError(pages, fully), NoRec, -1, FALSE, <<>>)
    /\ UNCHANGED <<file, indexed, cache, tiffpage>>
    /\ UNCHANGED <<frame, headvars, tilevars, rest>>

IsIndexError(err) ==
    err \in {"IndexError: index out of range",
             "IndexError: list index out of range"}

\* The loop of __iter__ from index i on, until _getitem raises.
RECURSIVE IterFrom(_, _, _, _, _, _, _)
IterFrom(f, pgs, idxd, i, cch, cls, kf) ==
    With(GetItem(f, pgs, idxd, i, cch, cls, kf), LAMBDA g :
    IF g.err = "none"
    THEN IterFrom(f, g.pages, g.indexed, i + 1, cch, cls, kf)
    ELSE [pages |-> g.pages, indexed |-> g.indexed,
          err |-> IF IsIndexError(g.err) THEN "none" ELSE g.err])

\* "for page in pages", run to its end
Iterate ==
    \E r \in {IterFrom(file, pages, indexed, 0, cache, tiffpage, keyframe)} :
    /\ pages' = r.pages
    /\ indexed' = r.indexed
    /\ cached' = IF r.err = "none" /\ cache THEN TRUE ELSE cached
    /\ last' = Outcome("iter", 0, 0, r.err, NoRec, -1, FALSE, <<>>)
    /\ UNCHANGED <<file, cache, tiffpage, keyframe>>
    /\ UNCHANGED <<frame, headvars, tilevars, rest>>

\* Where the image data of the directory at off begins: inside the
\* directory's own stretch of the file.
DataAt(f, off) == off + Stride \div 2

\* The virtual frames: one for every offset of
\* range(page1.offset + delta, filesize - delta, delta).
VirtualFrames(f, page, page1, delta) ==
    LET first == page1.off + delta
        stop  == FileSize(f) - delta
        count == IF stop > first THEN CeilDiv(stop - first, delta) ELSE 0
    IN  [i \in 1..count |-> FrameRec(0, i + 1, -1, page.id, page.index, 1)]

\* The try block of _load_virtual_frames: the list that becomes self.pages
\* and whether the chain is indexed.  Every error in it is caught.
TryVirtualFrames(f, pgs, idxd, cch, cls, kf) ==
    IF Len(pgs) > 1 \/ ~IsContiguous(f, pgs[1])
    THEN [pages |-> pgs, indexed |-> idxd]
    ELSE With(Seek(f, pgs, idxd, 4, MaxPagesCap), LAMBDA s :
    IF s.err # "none"
    THEN [pages |-> s.pages, indexed |-> s.indexed]
    ELSE LET delta == s.pages[3].off - s.pages[2].off IN
    IF \/ s.pages[4].off - s.pages[3].off # delta
       \/ s.pages[5].off - s.pages[4].off # delta
    THEN [pages |-> s.pages, indexed |-> s.indexed]
    ELSE With(GetItemValidate(f, s.pages, s.indexed, 1, cch, cls, kf,
                              Hash(f, pgs[1]).value), LAMBDA g :
    IF \/ g.err # "none"
       \/ DataAt(f, g.ret.off) - g.ret.off < 0
       \/ DataAt(f, g.ret.off) - g.ret.off > delta
    THEN [pages |-> g.pages, indexed |-> g.indexed]
    ELSE [pages |-> <<pgs[1], g.ret>>
                        \o VirtualFrames(f, pgs[1], g.ret, delta),
          indexed |-> g.indexed]))

\* pages._load_virtual_frames(): "assert pages[1]" raises IndexError for a
\* list of one slot, before the flags are set.
LoadVirtualFrames ==
    \E v \in {TryVirtualFrames(file, pages, indexed, cache, tiffpage,
                               keyframe)} :
    /\ pages' = v.pages
    /\ IF Len(v.pages) < 2
       THEN /\ indexed' = v.indexed
            /\ UNCHANGED <<cache, cached>>
            /\ last' = Outcome("virtual", 0, 0,
                               "IndexError: list index out of range", NoRec,
                               -1, FALSE, <<>>)
       ELSE /\ indexed' = TRUE
            /\ cache' = TRUE
            /\ cached' = TRUE
            /\ last' = Outcome("virtual", 0, 0, "none", NoRec, -1, FALSE,
                               <<>>)
    /\ UNCHANGED <<file, tiffpage, keyframe>>
    /\ UNCHANGED <<frame, headvars, tilevars, rest>>

----------------------------------------------------------------------------
(* TiffPages._getlist                                                      *)

\* The keys _getlist is called with: None, an integer, an iterable of
\* integers, or slice(start, stop).
KeyNone == [form |-> "none", key |-> 0, keys |-> <<>>]
KeyInt(k) == [form |-> "int", key |-> k, keys |-> <<>>]
KeyIter(ks) == [form |-> "iter", key |-> 0, keys |-> ks]
KeySlice(start, stop) == [form |-> "slice", key |-> 0, keys |-> <<start, stop>>]

\* range(a, b) as a sequence
Range(a, b) == [i \in 1..(IF b > a THEN b - a ELSE 0) |-> a + i - 1]

\* "[getitem(i, validate) for i in key]" from position n of the keys on.
RECURSIVE GetEach(_, _, _, _, _, _, _, _, _)
GetEach(f, pgs, idxd, keys, n, cch, cls, kf, validate) ==
    IF n > Len(keys) THEN [pages |-> pgs, indexed |-> idxd, err |-> "none"]
    ELSE With(GetItemValidate(f, pgs, idxd, keys[n], cch, cls, kf, validate),
              LAMBDA g :
         IF g.err # "none"
         THEN [pages |-> g.pages, indexed |-> g.indexed, err |-> g.err]
         ELSE GetEach(f, g.pages, g.indexed, keys, n + 1, cch, cls, kf,
                      validate))

\* The part of _getlist after the key has become an iterator: the first key
\* becomes the keyframe, the others are fetched, and the cursor and the
\* class are put back.
GetListOf(f, pgs, idxd, keys, cch, cls, kf, useframes, validate) ==
    IF keys = <<>>
    THEN [pages |-> pgs, indexed |-> idxd, tiffpage |-> cls,
          keyframe |-> kf, err |-> "StopIteration"]
    ELSE With(KeyframeSet(f, pgs, idxd, keys[1], cch, cls, kf), LAMBDA r :
         IF r.err # "none"
         THEN [pages |-> r.pages, indexed |-> r.indexed,
               tiffpage |-> r.tiffpage, keyframe |-> r.keyframe,
               err |-> r.err]
         ELSE With(GetEach(f, r.pages, r.indexed, keys, 2, cch,
                           IF useframes THEN "TiffFrame" ELSE r.tiffpage,
                           r.keyframe,
                           IF validate THEN Hash(f, r.keyframe).value ELSE 0),
                   LAMBDA g :
              [pages |-> g.pages, indexed |-> g.indexed,
               tiffpage |-> r.tiffpage, keyframe |-> kf, err |-> g.err]))

\* _getlist(key, useframes, validate): the chain, the class in use, the
\* cursor and the error raised.  For the integer key 0 the return comes
\* after "self.useframes = False" and before the try block that puts the
\* mode back.
GetList(f, pgs, idxd, key, cch, cls, kf, useframes, validate) ==
    IF key.form = "int"
    THEN IF key.key = 0
         THEN [pages |-> pgs, indexed |-> idxd,
               tiffpage |-> "TiffPage", keyframe |-> kf,
               err |-> "none"]
         ELSE With(GetItem(f, pgs, idxd, key.key, cch, "TiffPage", kf),
                   LAMBDA g :
              [pages |-> g.pages, indexed |-> g.indexed, tiffpage |-> cls,
               keyframe |-> kf, err |-> g.err])
    ELSE IF key.form = "iter"
    THEN GetListOf(f, pgs, idxd, key.keys, cch, cls, kf, useframes, validate)
    ELSE With(IF key.form = "none"
                 \/ (~idxd /\ (key.keys[1] > Len(pgs)
                               \/ key.keys[2] > Len(pgs)))
              THEN PagesLen(f, pgs, idxd)
              ELSE [pages |-> pgs, indexed |-> idxd, err |-> "none",
                    count |-> Len(pgs), parsed |-> <<>>], LAMBDA l :
         IF l.err # "none"
         THEN [pages |-> l.pages, indexed |-> l.indexed, tiffpage |-> cls,
               keyframe |-> kf, err |-> l.err]
         ELSE GetListOf(f, l.pages, l.indexed,
                        IF key.form = "none" THEN Range(0, Len(l.pages))
                        ELSE Range(Min(key.keys[1], Len(l.pages)),
                                   Min(key.keys[2], Len(l.pages))),
                        cch, cls, kf, useframes, validate))

ListKeys ==
    {KeyNone} \cup { KeyInt(k) : k \in Keys }
        \cup { KeyIter(ks) : ks \in {<<>>, <<0>>, <<1>>, <<0, 1>>, <<1, 0>>,
                                     <<1, 2>>} }
        \cup { KeySlice(a, b) : a \in 0..1, b \in 1..2 }

\* pages._getlist(key, useframes, validate)
CallGetList(key, useframes, validate) ==
    \E r \in {GetList(file, pages, indexed, key, cache, tiffpage, keyframe,
                      useframes, validate)} :
    /\ pages' = r.pages
    /\ indexed' = r.indexed
    /\ tiffpage' = r.tiffpage
    /\ keyframe' = r.keyframe
    /\ last' = Outcome("getlist", key.key, IF key.form = "int" THEN 1 ELSE 0,
                       r.err, NoRec, -1, FALSE, <<>>)
    /\ UNCHANGED <<file, cache, cached>>
    /\ UNCHANGED <<frame, headvars, tilevars, rest>>

----------------------------------------------------------------------------
(* TiffFile.__init__: the header parse.                                    *)

\* The bytes 'I' and 'M' of the order mark, the two versions and the offset
\* size of BigTIFF.
ByteI == 73
ByteM == 77
VersionClassic == 42
VersionBig == 43
BigOffsetSize == 8

\* The most bytes a file of the header model has.
MaxFileLen == 8

\* fh.read(size) at position pos: the bytes that are there, at most size.
Read(content, pos, size) ==
    SubSeq(content, pos + 1, Min(pos + size, Len(content)))

\* struct.unpack(byteorder + 'H' * count, data): the values, or struct.error
\* when data has not 2 * count bytes.
Unpack(byteorder, count, data) ==
    IF Len(data) # 2 * count
    THEN [err |-> "struct.error", value |-> <<>>]
    ELSE [err |-> "none",
          value |-> [i \in 1..count |->
                        IF byteorder = "<"
                        THEN data[2 * i - 1] + 256 * data[2 * i]
                        ELSE 256 * data[2 * i - 1] + data[2 * i]]]

\* {b'II': '<', b'MM': '>'}[header[:2]]; "KeyError" for any other key.
ByteOrder(mark) ==
    IF mark = <<ByteI, ByteI>> THEN "<"
    ELSE IF mark = <<ByteM, ByteM>> THEN ">"
    ELSE "KeyError"

\* The descriptor that TiffFile.__init__ selects for a file of the given
\* content, or the error it raises.
OpenHeader(content, is_ndpi) ==
    LET header    == Read(content, 0, 4)
        byteorder == ByteOrder(SubSeq(header, 1, Min(2, Len(header))))
        version   == Unpack(byteorder, 1, SubSeq(header, 3, Len(header)))
        big       == Unpack(byteorder, 2, Read(content, 4, 4))
    IN  IF byteorder = "KeyError"
        THEN [tiff |-> "none", err |-> "TiffFileError: not a TIFF file"]
        ELSE IF version.err # "none"
        THEN [tiff |-> "none", err |-> version.err]
        ELSE IF version.value[1] = VersionBig
        THEN IF big.err # "none"
             THEN [tiff |-> "none", err |-> big.err]
             ELSE IF big.value[2] # 0 \/ big.value[1] # BigOffsetSize
             THEN [tiff |-> "none",
                   err |-> "TiffFileError: invalid BigTIFF file"]
             ELSE [tiff |-> IF byteorder = ">" THEN "BIG_BE" ELSE "BIG_LE",
                   err |-> "none"]
        ELSE IF version.value[1] = VersionClassic
        THEN [tiff |-> IF byteorder = ">" THEN "CLASSIC_BE"
                       ELSE IF is_ndpi THEN "NDPI_LE"
                       ELSE "CLASSIC_LE",
              err |-> "none"]
        ELSE [tiff |-> "none", err |-> "TiffFileError: invalid TIFF file"]

\* The files of the header model: an order mark, two version bytes and four
\* bytes of BigTIFF fields, cut off after any number of bytes or followed
\* by zeros.
OrderMarks ==
    {<<ByteI, ByteI>>, <<ByteM, ByteM>>, <<ByteI, ByteM>>, <<0, 0>>}

VersionBytes == {0, VersionClassic, VersionBig}

FieldBytes == {0, BigOffsetSize}

Content(mark, version, fields, len) ==
    [i \in 1..len |->
        IF i <= 2 THEN mark[i]
        ELSE IF i <= 4 THEN version[i - 2]
        ELSE IF i <= 8 THEN fields[i - 4]
        ELSE 0]

HeaderFiles ==
    { Content(mark, version, fields, len) :
        mark \in OrderMarks,
        version \in VersionBytes \X VersionBytes,
        fields \in FieldBytes \X FieldBytes \X FieldBytes \X FieldBytes,
        len \in 0..MaxFileLen }

\* No file has been opened.
Unopened == [opened |-> FALSE, is_ndpi |-> FALSE, tiff |-> "none",
             err |-> "none"]

IdleHeader ==
    /\ filebytes = <<>>
    /\ tifffile = Unopened

InitHeader ==
    /\ filebytes \in HeaderFiles
    /\ tifffile = Unopened

\* TiffFile(arg, is_ndpi=...) on the file
OpenFile(is_ndpi) ==
    /\ ~tifffile.opened
    /\ \E r \in {OpenHeader(filebytes, is_ndpi)} :
           tifffile' = [opened |-> TRUE, is_ndpi |-> is_ndpi,
                        tiff |-> r.tiff, err |-> r.err]
    /\ UNCHANGED <<filebytes, chainvars, frame, tilevars, rest>>

----------------------------------------------------------------------------
(* A TiffFrame in the hands of the caller.                                 *)

\* The most TiffPage objects of one directory that the caller holds
\* (uncached pages[i] returns a new object on every call).
MaxObjects == 2

\* The TiffPage objects that the caller can hold for the directories of
\* the file.
PageObjects(f) ==
    { PageRec(id, index, DirOffset(f, index)) :
        id \in 1..MaxObjects, index \in 0..(f.n - 1) }

\* The directories of the file that TiffPage and TiffFrame can parse.
Parsable(f, index) ==
    LET tagno == TagnoAt(f, DirOffset(f, index))
    IN  tagno # Unreadable /\ tagno <= MaxTagno

Keyframes(f) == { p \in PageObjects(f) : Parsable(f, p.index) }

IdleFrame == frame = NoRec

\* TiffFrame(parent, index, offset, keyframe=kf), kf a TiffPage or None
NewFrame(index, kf) ==
    /\ index \in 0..(file.n - 1)
    /\ \E r \in {NewTiffFrame(file, index, DirOffset(file, index), kf)} :
           /\ frame' = IF r.err = "none" THEN r.rec ELSE frame
           /\ last' = Outcome("frame", kf.id, index, r.err, r.rec, -1, TRUE,
                              <<>>)
    /\ UNCHANGED <<file, pages, indexed, cached, cache, tiffpage, keyframe>>
    /\ UNCHANGED <<headvars, tilevars, rest>>

\* frame.keyframe = kf, kf a TiffPage or None
AssignKeyframe(kf) ==
    /\ frame # NoRec
    /\ \E r \in {FrameSetKeyframe(file, frame, kf)} :
           /\ frame' = r.frame
           /\ last' = Outcome("frame.keyframe", kf.id, kf.index, r.err,
                              r.frame, -1, FALSE, <<>>)
    /\ UNCHANGED <<file, pages, indexed, cached, cache, tiffpage, keyframe>>
    /\ UNCHANGED <<headvars, tilevars, rest>>

----------------------------------------------------------------------------
(* TiffPage.asarray: the tiles of a page and where tile_decode puts them.  *)
(* A page is a record of its layout (planes, image and tile extents), its  *)
(* predictor, and the one tile whose segment is not a complete tile; a    *)
(* sample is one byte and a pixel has one sample.                          *)

\* Bounds of the layouts.
MaxPlanes == 2
MaxDepth == 2
MaxExtent == 3
MaxTileExtent == 2
MaxTiles == 4
MaxCells == 6
MaxWorkers == 2

\* TiffPage.nodata
NoData == 0

\* tiledshape = (td, tl, tw)
TiledShape(t) ==
    [depth  |-> CeilDiv(t.imagedepth, t.tiledepth),
     length |-> CeilDiv(t.imagelength, t.tilelength),
     width  |-> CeilDiv(t.imagewidth, t.tilewidth)]

\* tilesize = tiledepth * tilelength * tilewidth * samples
TileSize(t) == t.tiledepth * t.tilelength * t.tilewidth

\* len(offsets): one segment for every tile of every plane
NumTiles(t) ==
    t.planes * TiledShape(t).depth * TiledShape(t).length
             * TiledShape(t).width

\* The origin that uses the count of tile rows for the column.
TileOriginByRows(t, tileindex) ==
    LET ts == TiledShape(t) IN
    [pl |-> tileindex \div (ts.width * ts.length * ts.depth),
     td |-> ((tileindex \div (ts.width * ts.length)) % ts.depth)
                * t.tiledepth,
     tl |-> ((tileindex \div ts.width) % ts.length) * t.tilelength,
     tw |-> (tileindex % ts.length) * t.tilewidth]

\* pl, td, tl, tw of tile_decode: the plane and the corner of the tile
TileOrigin(t, tileindex) ==
    LET ts == TiledShape(t) IN
    [pl |-> tileindex \div (ts.width * ts.length * ts.depth),
     td |-> ((tileindex \div (ts.width * ts.length)) % ts.depth)
                * t.tiledepth,
     tl |-> ((tileindex \div ts.width) % ts.length) * t.tilelength,
     tw |-> (tileindex % ts.width) * t.tilewidth]

\* The shape  of the tile that is cut off at the borders of the image:
\* s = (min(imagedepth - td, tiledepth), ...)
ClippedShape(t, o) ==
    [depth  |-> Min(t.imagedepth - o.td, t.tiledepth),
     length |-> Min(t.imagelength - o.tl, t.tilelength),
     width  |-> Min(t.imagewidth - o.tw, t.tilewidth)]

\* The samples that the segment of a tile unpacks to, or <<>> with none set
\* for a segment that buffered_read leaves out (offset or byte count 0).
\* Sample k of tile i is i * (tilesize + 1) + k, so no two tiles of a page
\* share a sample.
Segment(t, tileindex) ==
    LET kind == IF tileindex = t.special THEN t.kind ELSE "full"
        s    == ClippedShape(t, TileOrigin(t, tileindex))
        size == IF kind = "long" THEN TileSize(t) + 1
                ELSE IF kind = "short" THEN 1
                ELSE IF kind = "edge" THEN s.depth * s.length * s.width
                ELSE TileSize(t)
    IN  [none |-> kind = "none",
         data |-> IF kind = "none" THEN <<>>
                  ELSE [k \in 1..size |->
                           tileindex * (TileSize(t) + 1) + k]]

\* The tile as an array: tile[:tilesize] in the shape of a tile, in the
\* clipped shape, or padded with zeros to the shape of a tile.
Shaped(t, o, data) ==
    LET tile == SubSeq(data, 1, Min(Len(data), TileSize(t)))
        s    == ClippedShape(t, o)
    IN  IF Len(tile) = TileSize(t)
        THEN [depth |-> t.tiledepth, length |-> t.tilelength,
              width |-> t.tilewidth, flat |-> tile]
        ELSE IF Len(tile) = s.depth * s.length * s.width
        THEN [depth |-> s.depth, length |-> s.length, width |-> s.width,
              flat |-> tile]
        ELSE [depth |-> t.tiledepth, length |-> t.tilelength,
              width |-> t.tilewidth,
              flat |-> [k \in 1..TileSize(t) |->
                           IF k <= Len(tile) THEN tile[k] ELSE 0]]

\* tile[d, r, c]
At(tile, d, r, c) == tile.flat[(d * tile.length + r) * tile.width + c + 1]

\* numpy.cumsum along the width of the tile, in bytes
RECURSIVE CumSum(_, _, _, _)
CumSum(tile, d, r, c) ==
    IF c < 0 THEN 0
    ELSE (CumSum(tile, d, r, c - 1) + At(tile, d, r, c)) % 256

\* A page whose buffer is reversed whatever its layout.
NeverPerTile(istiled, contiguous) == FALSE

\* "istiled and not self.is_contiguous": the predictor was undone tile by
\* tile, and the assembled buffer is left as it is.
UndonePerTile(istiled, contiguous) == istiled /\ ~contiguous

\* unpredict(tile, axis=-2): the identity for predictor 1, delta_decode
\* for predictor 2
Unpredict(t, tile) ==
    IF t.predictor = 1 THEN tile
    ELSE [tile EXCEPT !.flat =
             [k \in 1..Len(tile.flat) |->
                 CumSum(tile, (k - 1) \div (tile.length * tile.width),
                        ((k - 1) \div tile.width) % tile.length,
                        (k - 1) % tile.width)]]

\* The cells of the output array: out[pl, d, r, c]
Cells(t) ==
    (0..(t.planes - 1)) \X (0..(t.imagedepth - 1))
        \X (0..(t.imagelength - 1)) \X (0..(t.imagewidth - 1))

\* The cells of out[pl, td:td+tiledepth, tl:tl+tilelength, tw:tw+tilewidth]
Region(t, tileindex) ==
    LET o == TileOrigin(t, tileindex) IN
    { c \in Cells(t) :
        /\ c[1] = o.pl
        /\ o.td <= c[2] /\ c[2] < o.td + t.tiledepth
        /\ o.tl <= c[3] /\ c[3] < o.tl + t.tilelength
        /\ o.tw <= c[4] /\ c[4] < o.tw + t.tilewidth }

\* The segment of the tile is one that decompress raises an error for.
Corrupt(t, tileindex) == tileindex = t.special /\ t.kind = "corrupt"

\* tile_decode(tile, tileindex, ...): the output array after a call that
\* returns
TileDecode(t, tileindex, array) ==
    LET o       == TileOrigin(t, tileindex)
        segment == Segment(t, tileindex)
        region  == Region(t, tileindex)
    IN  IF segment.none
        THEN [c \in Cells(t) |-> IF c \in region THEN NoData ELSE array[c]]
        ELSE With(Unpredict(t, Shaped(t, o, segment.data)), LAMBDA tile :
             [c \in Cells(t) |->
                 IF c \in region
                 THEN At(tile, c[2] - o.td, c[3] - o.tl, c[4] - o.tw)
                 ELSE array[c]])

\* The output array after tiles 0 .. n-1 were decoded one after the other:
\* "for i, tile in enumerate(tileiter): decode(tile, i)"
RECURSIVE DecodeInOrder(_, _, _)
DecodeInOrder(t, array, n) ==
    IF n = 0 THEN array
    ELSE With(DecodeInOrder(t, array, n - 1), LAMBDA a :
              TileDecode(t, n - 1, a))

\* The pages of the tile model.
TilePage(planes, id, il, iw, td, tl, tw, predictor, special, kind) ==
    [planes |-> planes, imagedepth |-> id, imagelength |-> il,
     imagewidth |-> iw, tiledepth |-> td, tilelength |-> tl,
     tilewidth |-> tw, predictor |-> predictor, special |-> special,
     kind |-> kind]

Layouts ==
    { t \in { TilePage(p, id, il, iw, td, tl, tw, 1, -1, "full") :
                p \in 1..MaxPlanes, id \in 1..MaxDepth,
                il \in 1..MaxExtent, iw \in 1..MaxExtent,
                td \in 1..MaxDepth, tl \in 1..MaxTileExtent,
                tw \in 1..MaxTileExtent } :
        /\ NumTiles(t) <= MaxTiles
        /\ Cardinality(Cells(t)) <= MaxCells
        /\ t.tiledepth <= t.imagedepth }

SegmentKinds == {"none", "short", "long", "edge"}

TilePages ==
    UNION { { [t EXCEPT !.predictor = pr] : pr \in {1, 2} }
            \cup { [t EXCEPT !.special = sp, !.kind = kd] :
                      sp \in {0, NumTiles(t) - 1}, kd \in SegmentKinds }
            \cup { [t EXCEPT !.predictor = 2, !.special = NumTiles(t) - 1,
                             !.kind = "short"] } :
            t \in Layouts }

\* Pages of more than one tile, one of which may be corrupt.
FailingPages ==
    UNION { {t} \cup { [t EXCEPT !.special = sp, !.kind = "corrupt"] :
                          sp \in 0..(NumTiles(t) - 1) } :
            t \in { l \in Layouts : NumTiles(l) > 1 } }

\* The array the caller passes as out, or numpy.zeros of create_output:
\* every cell holds the same byte.
Filled(t, byte) == [c \in Cells(t) |-> byte]

IdleTiles ==
    /\ tilepage = TilePage(1, 1, 1, 1, 1, 1, 1, 1, -1, "full")
    /\ out = <<>>
    /\ fill = 0
    /\ order = <<>>
    /\ running = {}
    /\ maxworkers = 0
    /\ phase = "idle"
    /\ raised = ""
    /\ futures = {}

InitTiles ==
    /\ tilepage \in TilePages
    /\ out = <<>>
    /\ fill = 0
    /\ order = <<>>
    /\ running = {}
    /\ maxworkers = 0
    /\ phase = "idle"
    /\ raised = ""
    /\ futures = {}

\* page.asarray(out=..., maxworkers=...) up to the first tile
Asarray(workers, byte) ==
    /\ phase = "idle"
    /\ phase' = "decoding"
    /\ maxworkers' = workers
    /\ out' = Filled(tilepage, byte)
    /\ fill' = byte
    /\ order' = <<>>
    /\ running' = {}
    /\ UNCHANGED <<tilepage, raised, futures>>
    /\ UNCHANGED <<chainvars, frame, headvars, rest>>

\* maxworkers < 2: "for i, tile in enumerate(tileiter): decode(tile, i)",
\* one tile
DecodeNext ==
    /\ phase = "decoding"
    /\ maxworkers < 2
    /\ Len(order) < NumTiles(tilepage)
    /\ IF Corrupt(tilepage, Len(order))
       THEN /\ phase' = "raised"
            /\ raised' = "decompress"
            /\ UNCHANGED <<out, order>>
       ELSE /\ \E a \in {out} : out' = TileDecode(tilepage, Len(order), a)
            /\ order' = Append(order, Len(order))
            /\ UNCHANGED <<phase, raised>>
    /\ UNCHANGED <<tilepage, fill, running, maxworkers, futures>>
    /\ UNCHANGED <<chainvars, frame, headvars, rest>>

\* maxworkers >= 2: "decode(next(tileiter), 0)" on the calling thread
DecodeFirst ==
    /\ phase = "decoding"
    /\ maxworkers >= 2
    /\ order = <<>>
    /\ IF Corrupt(tilepage, 0)
       THEN /\ phase' = "raised"
            /\ raised' = "decompress"
            /\ UNCHANGED <<out, order>>
       ELSE /\ \E a \in {out} : out' = TileDecode(tilepage, 0, a)
            /\ order' = <<0>>
            /\ UNCHANGED <<phase, raised>>
    /\ UNCHANGED <<tilepage, fill, running, maxworkers, futures>>
    /\ UNCHANGED <<chainvars, frame, headvars, rest>>

\* A dispatch that does not wait for the first tile.
FirstNotAwaited(done) == TRUE

\* "decode(next(tileiter), 0)" returned before the executor is made.
FirstDecoded(done) == done # <<>>

\* A thread of the pool takes the next tile of executor.map.
WorkerStart ==
    /\ phase = "decoding"
    /\ maxworkers >= 2
    /\ FirstDecoded(order)
    /\ Cardinality(running) < maxworkers
    /\ Len(order) + Cardinality(running) < NumTiles(tilepage)
    /\ running' = running \cup {Len(order) + Cardinality(running)}
    /\ UNCHANGED <<tilepage, out, fill, order, maxworkers, phase, raised,
                   futures>>
    /\ UNCHANGED <<chainvars, frame, headvars, rest>>

\* A thread of the pool completes decode(tile, tileindex): the array is
\* written, or the error is stored in the future of the call, which
\* executor.map keeps and asarray never reads.
WorkerDecode(tileindex) ==
    /\ phase = "decoding"
    /\ tileindex \in running
    /\ IF Corrupt(tilepage, tileindex)
       THEN /\ futures' = futures \cup {tileindex}
            /\ UNCHANGED out
       ELSE /\ \E a \in {out} : out' = TileDecode(tilepage, tileindex, a)
            /\ UNCHANGED futures
    /\ order' = Append(order, tileindex)
    /\ running' = running \ {tileindex}
    /\ UNCHANGED <<tilepage, fill, maxworkers, phase, raised>>
    /\ UNCHANGED <<chainvars, frame, headvars, rest>>

\* The tests of is_contiguous on the layout of a tiled page, which come
\* before the test of its offsets: a page whose tiles are not a multiple
\* of 16 wide and long is not contiguous.
TileContiguous(t) ==
    /\ t.imagewidth = t.tilewidth
    /\ t.imagelength % t.tilelength = 0
    /\ t.tilewidth % 16 = 0
    /\ t.tilelength % 16 = 0
    /\ t.imagelength = t.tilelength
    /\ t.imagedepth % t.tiledepth = 0

\* unpredict(result, axis=-2, out=result) of the assembled 5D array
RECURSIVE UnpredictCell(_, _)
UnpredictCell(array, c) ==
    IF c[4] = 0 THEN array[c]
    ELSE (UnpredictCell(array, <<c[1], c[2], c[3], c[4] - 1>>) + array[c])
             % 256

\* "if self.predictor != 1 and not (istiled and not self.is_contiguous)"
\* for the array of a tiled page
UnpredictResult(t, array) ==
    IF t.predictor # 1 /\ ~UndonePerTile(TRUE, TileContiguous(t))
    THEN [c \in Cells(t) |-> UnpredictCell(array, c)]
    ELSE array

\* Every tile is decoded (the executor has shut down): the rest of asarray
\* runs and it returns.
Return ==
    /\ phase = "decoding"
    /\ Len(order) = NumTiles(tilepage)
    /\ phase' = "returned"
    /\ \E a \in {out} : out' = UnpredictResult(tilepage, a)
    /\ UNCHANGED <<tilepage, fill, order, running, maxworkers, raised,
                   futures>>
    /\ UNCHANGED <<chainvars, frame, headvars, rest>>

----------------------------------------------------------------------------
(* A page in strips and the three ways asarray reads it.                   *)
(* Samples are bytes (bitspersample 8, one sample per pixel), so a sample  *)
(* is its own byte in either byte order and every offset is aligned.       *)

MaxLength == 3
MaxWidth == 2
MaxTail == 2

\* TIFF.COMPRESSION: NONE, and ADOBE_DEFLATE for a page that is compressed
CompressionNone == 1
CompressionDeflate == 8

\* The bytes between two strips of a file that does not pack its strips,
\* and the bytes that follow the last strip.
Filler(n) == [k \in 1..n |-> 238]

\* The classic little-endian header, which is what lies at offset 0.
StripHeader == <<ByteI, ByteI, VersionClassic, 0, 8, 0, 0, 0>>

\* A page in strips.  Its samples are bytes, written in fill order 1 and
\* not subsampled, in a little-endian file on a little-endian machine; the
\* pages that is_memmappable is asked about differ from that.
StripPage(il, iw, rps, comp, pred, miss, how, gap, tail, isfile) ==
    [imagelength |-> il, imagewidth |-> iw, rowsperstrip |-> rps,
     compression |-> comp, predictor |-> pred, missing |-> miss,
     how |-> how, gap |-> gap, tail |-> tail, is_file |-> isfile,
     itemsize |-> 1, fillorder |-> 1, is_subsampled |-> FALSE,
     byteorder |-> "<", machine |-> "<"]

\* stripsize = rowsperstrip * imagewidth
StripSize(s) == s.rowsperstrip * s.imagewidth

\* len(dataoffsets) of a page in strips
NumStrips(s) == CeilDiv(s.imagelength, s.rowsperstrip)

\* product(shape)
ImageSize(s) == s.imagelength * s.imagewidth

\* The samples a writer stored for strip i, as they are before the
\* predictor is undone; the last strip holds the rows that are left.
StripSamples(s, i) ==
    LET rows == Min(s.rowsperstrip, s.imagelength - i * s.rowsperstrip)
    IN  [k \in 1..(rows * s.imagewidth) |-> i * (StripSize(s) + 1) + k]

\* The stored form of a strip: the samples themselves when the page is not
\* compressed, and otherwise a stream that opens with its length and holds
\* every sample shifted by one.
Compress(s, data) ==
    IF s.compression = CompressionNone THEN data
    ELSE <<Len(data)>> \o [k \in 1..Len(data) |-> (data[k] + 1) % 256]

\* TIFF.DECOMPESSORS[compression](strip)
Decompress(s, data) ==
    IF s.compression = CompressionNone THEN data
    ELSE [k \in 1..Min(data[1], Len(data) - 1) |-> (data[k + 1] + 255) % 256]

\* The bytes the file holds for strip i: none for the missing strip.
StripBytes(s, i) ==
    IF i = s.missing THEN <<>> ELSE Compress(s, StripSamples(s, i))

\* Where the bytes of strip i begin.
RECURSIVE StripPosition(_, _)
StripPosition(s, i) ==
    IF i = 0 THEN Len(StripHeader)
    ELSE StripPosition(s, i - 1) + Len(StripBytes(s, i - 1)) + s.gap

\* StripOffsets: the missing strip has offset 0 when that is how the file
\* marks it.
StripOffsets(s) ==
    [j \in 1..NumStrips(s) |->
        IF j - 1 = s.missing /\ s.how = "offset" THEN 0
        ELSE StripPosition(s, j - 1)]

\* StripByteCounts: the missing strip has byte count 0 when that is how
\* the file marks it.
StripByteCounts(s) ==
    [j \in 1..NumStrips(s) |->
        IF j - 1 = s.missing /\ s.how = "offset"
        THEN Len(Compress(s, StripSamples(s, j - 1)))
        ELSE Len(StripBytes(s, j - 1))]

RECURSIVE StripFileUpTo(_, _)
StripFileUpTo(s, n) ==
    IF n = 0 THEN StripHeader
    ELSE StripFileUpTo(s, n - 1)
             \o (IF n = 1 THEN <<>> ELSE Filler(s.gap))
             \o StripBytes(s, n - 1)

\* The content of the file.
StripFile(s) ==
    StripFileUpTo(s, NumStrips(s)) \o Filler(s.tail)

RECURSIVE SumSeq(_, _)
SumSeq(q, n) == IF n = 0 THEN 0 ELSE SumSeq(q, n - 1) + q[n]

\* What is_contiguous returns: the offset and the size of the contiguous
\* data, or None.
Contiguous(offset, bytecount) ==
    [some |-> TRUE, offset |-> offset, bytecount |-> bytecount]

NotContiguous == [some |-> FALSE, offset |-> 0, bytecount |-> 0]

\* is_contiguous
is_contiguous(s) ==
    LET offsets    == StripOffsets(s)
        bytecounts == StripByteCounts(s)
        n          == Len(offsets)
    IN  IF s.compression # CompressionNone THEN NotContiguous
        ELSE IF n = 1
        THEN Contiguous(offsets[1], bytecounts[1])
        ELSE IF \A i \in 1..(n - 1) :
                    \/ offsets[i] + bytecounts[i] = offsets[i + 1]
                    \/ bytecounts[i + 1] = 0
        THEN Contiguous(offsets[1], SumSeq(bytecounts, n))
        ELSE NotContiguous

\* A page that is final whenever it is contiguous.
FinalWhenContiguous(s) == is_contiguous(s).some

\* is_final
is_final(s) ==
    /\ is_contiguous(s).some
    /\ s.fillorder = 1
    /\ s.predictor = 1
    /\ ~s.is_subsampled

\* is_memmappable; the test of the byte order is commented out
is_memmappable(s) ==
    /\ s.is_file
    /\ is_final(s)
    /\ is_contiguous(s).offset % s.itemsize = 0

\* _offsetscounts
offsetscounts(s) ==
    IF is_contiguous(s).some
    THEN [offsets    |-> <<is_contiguous(s).offset>>,
          bytecounts |-> <<is_contiguous(s).bytecount>>]
    ELSE [offsets |-> StripOffsets(s), bytecounts |-> StripByteCounts(s)]

\* What buffered_read yields for one segment: None, or fh.read(bytecount)
\* after fh.seek(offset).
BufferedRead(s, offset, bytecount) ==
    IF offset > 0 /\ bytecount > 0
    THEN [none |-> FALSE, data |-> Read(StripFile(s), offset, bytecount)]
    ELSE [none |-> TRUE, data |-> <<>>]

\* result[index:index + size] = data[:size], the slice clipped to result
Store(array, index, size, data) ==
    [k \in 1..Len(array) |->
        IF index < k /\ k <= index + size THEN data[k - index]
        ELSE array[k]]

\* "for strip in buffered_read(...)": the strips from number i on
RECURSIVE StripLoop(_, _, _, _)
StripLoop(s, i, array, index) ==
    IF i = Len(offsetscounts(s).offsets) THEN array
    ELSE LET raw == BufferedRead(s, offsetscounts(s).offsets[i + 1],
                                 offsetscounts(s).bytecounts[i + 1])
         IN  IF raw.none
             THEN StripLoop(s, i + 1,
                            Store(array, index, StripSize(s),
                                  [k \in 1..StripSize(s) |-> NoData]),
                            index + StripSize(s))
             ELSE LET strip == Decompress(s, raw.data)
                      size  == Min(Min(Len(array), Len(strip)),
                                   Min(StripSize(s), Len(array) - index))
                  IN  StripLoop(s, i + 1, Store(array, index, size, strip),
                                index + size)

\* numpy.cumsum along the width of the image, in bytes
RECURSIVE RowSum(_, _, _)
RowSum(array, width, k) ==
    IF (k - 1) % width = 0 THEN array[k]
    ELSE (RowSum(array, width, k - 1) + array[k]) % 256

\* unpredict(result, axis=-2, out=result) of a page in strips
UnpredictImage(s, array) ==
    IF s.predictor = 1 THEN array
    ELSE [k \in 1..Len(array) |-> RowSum(array, s.imagewidth, k)]

\* "if self.predictor != 1 and not (istiled and not self.is_contiguous):
\* result = unpredict(result, axis=-2, out=result)", which every path of a
\* call that did not raise comes to; r is the result so far.
FinalUnpredict(s, r) ==
    IF r.err = "" /\ ~UndonePerTile(FALSE, is_contiguous(s).some)
    THEN [r EXCEPT !.data = UnpredictImage(s, r.data)]
    ELSE r

\* What the call gave: the path it took, what backs the array, the error
\* it raised, and the array.
Result(req, path, backing, err, data) ==
    [req |-> req, path |-> path, backing |-> backing, err |-> err,
     data |-> data]

NoResult == Result("", "", "", "", <<>>)

\* fh.memmap_array(typecode, shape, offset=offsets[0]); numpy.memmap
\* raises ValueError for a file shorter than offset + size.
MemmapArray(s, req) ==
    LET offset == offsetscounts(s).offsets[1] IN
    IF offset + ImageSize(s) > Len(StripFile(s))
    THEN Result(req, "memmap", "", "ValueError", <<>>)
    ELSE Result(req, "memmap", "file", "",
                Read(StripFile(s), offset, ImageSize(s)))

\* What create_output(out, shape, dtype) is backed by.
Backing(req) ==
    IF req = "memmap" THEN "tempfile" ELSE "memory"

\* fh.seek(offsets[0]); fh.read_array(typecode, product(shape), out=out)
ReadArray(s, req) ==
    LET data == Read(StripFile(s), offsetscounts(s).offsets[1],
                     ImageSize(s))
    IN  IF Len(data) # ImageSize(s)
        THEN Result(req, "contiguous", "", "ValueError", <<>>)
        ELSE Result(req, "contiguous", Backing(req), "", data)

\* create_output followed by the loop over the strips; an array passed as
\* out holds 255 everywhere before the call.
ReadStrips(s, req) ==
    LET empty == [k \in 1..ImageSize(s) |->
                     IF req = "array" THEN 255 ELSE 0]
    IN  Result(req, "segments", Backing(req), "",
               StripLoop(s, 0, empty, 0))

\* A choice that maps the file whenever a memory map is asked for and the
\* page is contiguous.
MemmapWhenContiguous(s, req) == req = "memmap" /\ is_contiguous(s).some

\* "isinstance(out, str) and out == 'memmap' and self.is_memmappable"
MemmapFirst(s, req) == req = "memmap" /\ is_memmappable(s)

\* TiffPage.asarray(out=req) of a page in strips; req is "none" for
\* out=None, "array" for an array and "memmap" for the string.
PageAsarrayOf(s, req) ==
    FinalUnpredict(s, IF MemmapFirst(s, req) THEN MemmapArray(s, req)
                      ELSE IF is_contiguous(s).some THEN ReadArray(s, req)
                      ELSE ReadStrips(s, req))

Shapes ==
    { <<il, iw, rps>> \in (1..MaxLength) \X (1..MaxWidth) \X (1..MaxLength) :
        rps <= il }

StripPages ==
    { StripPage(sh[1], sh[2], sh[3], comp, pred, miss, how, gap, tail, isf) :
        sh \in Shapes, comp \in {CompressionNone, CompressionDeflate},
        pred \in {1, 2}, miss \in -1..(MaxLength - 1),
        how \in {"bytecount", "offset"}, gap \in {0, 1},
        tail \in {0, MaxTail}, isf \in BOOLEAN }

Requests == {"none", "array", "memmap"}

IdleStrips ==
    /\ strippage = StripPage(1, 1, 1, CompressionNone, 1, -1, "bytecount",
                             0, 0, FALSE)
    /\ result = NoResult

InitStrips ==
    /\ strippage \in { s \in StripPages :
                         /\ s.missing < NumStrips(s)
                         /\ s.missing = -1 => s.how = "bytecount" }
    /\ result = NoResult

\* The pages that is_memmappable is asked about: pages with no strip
\* missing, with samples of 1, 2 or 16 bytes in either byte order and fill
\* order, subsampled or not, read on a machine of either byte order.
MemmapPages ==
    { [s EXCEPT !.itemsize = z, !.fillorder = fo, !.is_subsampled = sub,
                !.byteorder = bo, !.machine = m] :
        s \in { q \in StripPages : q.missing = -1 /\ q.how = "bytecount"
                                     /\ q.tail = 0 },
        z \in {1, 2, 16}, fo \in {1, 2}, sub \in BOOLEAN,
        bo \in {"<", ">"}, m \in {"<", ">"} }

InitMemmapPages ==
    /\ strippage \in MemmapPages
    /\ result = NoResult

\* page.is_memmappable
IsMemmappable ==
    /\ result' = Result("is_memmappable", "", "", "",
                        <<is_memmappable(strippage)>>)
    /\ UNCHANGED strippage
    /\ UNCHANGED <<chainvars, frame, headvars, tilevars, cachevars, tagvars,
                   late>>

\* page.asarray(out=req)
PageAsarray(req) ==
    /\ result' = PageAsarrayOf(strippage, req)
    /\ UNCHANGED strippage
    /\ UNCHANGED <<chainvars, frame, headvars, tilevars, cachevars, tagvars,
                 late>>

----------------------------------------------------------------------------
(* OpenFileCache as stack_pages uses it: every reader opens a file handle  *)
(* through the cache, reads, and closes it through the cache; the cache's  *)
(* lock makes each call one step.                                          *)

MaxHandles == 3
MaxReaders == 2
MaxCacheSize == 1

Handles == 1..MaxHandles
Readers == 1..MaxReaders

\* self.files[filehandle]: whether the key is in the dictionary, and its
\* refcount
Entry(present, n) == [present |-> present, n |-> n]

\* The cache: self.files, self.past, and the handles that are closed
\* (filehandle.closed).
Cache(f, p, c) == [files |-> f, past |-> p, closed |-> c]

\* A test that takes every handle of the cache as unused.
AlwaysUnused(c, fh) == TRUE

\* "self.files[filehandle] == 0" of close, "refcount == 0" of clear
Unused(c, fh) == c.files[fh].n = 0

\* filehandle.close(); del self.files[filehandle]; del self.past[index]
Drop(c, index) ==
    LET fh == c.past[index + 1] IN
    Cache([c.files EXCEPT ![fh] = Entry(FALSE, 0)],
          SubSeq(c.past, 1, index) \o SubSeq(c.past, index + 2, Len(c.past)),
          c.closed \cup {fh})

\* A close that trims nothing.
NoTrim(c, limit, index, n) == c

\* "while size > self.size and index < size" of close
RECURSIVE Trim(_, _, _, _)
Trim(c, limit, index, n) ==
    IF ~(n > limit /\ index < n) THEN c
    ELSE IF Unused(c, c.past[index + 1])
         THEN Trim(Drop(c, index), limit, index, n - 1)
         ELSE Trim(c, limit, index + 1, n)

\* The position of a handle in self.past: self.past.index(filehandle)
PastIndex(c, fh) == CHOOSE i \in 0..(Len(c.past) - 1) : c.past[i + 1] = fh

\* "for filehandle, refcount in list(self.files.items())" of clear, over
\* the handles that are left to visit
RECURSIVE ClearAll(_, _)
ClearAll(c, left) ==
    IF left = {} THEN c
    ELSE LET fh == CHOOSE h \in left : TRUE IN
         IF c.files[fh].present /\ Unused(c, fh)
         THEN ClearAll(Drop(c, PastIndex(c, fh)), left \ {fh})
         ELSE ClearAll(c, left \ {fh})

TheCache == Cache(openfiles, past, closed)

SetCacheTo(c) ==
    /\ openfiles' = c.files
    /\ past' = c.past
    /\ closed' = c.closed
    /\ closedby' = closedby \cup (c.closed \ closed)

IdleCache ==
    /\ openfiles = [h \in Handles |-> Entry(FALSE, 0)]
    /\ past = <<>>
    /\ closed = {}
    /\ cachesize = 0
    /\ holding = [r \in Readers |-> 0]
    /\ refs = [h \in Handles |-> 0]
    /\ closedby = {}

\* OpenFileCache(size, lock) over handles that are open or closed
InitCache ==
    /\ openfiles = [h \in Handles |-> Entry(FALSE, 0)]
    /\ past = <<>>
    /\ closed \in SUBSET Handles
    /\ cachesize \in 0..MaxCacheSize
    /\ holding = [r \in Readers |-> 0]
    /\ refs = [h \in Handles |-> 0]
    /\ closedby = {}

\* The cache after open(filehandle)
AfterOpen(c, fh) ==
    IF c.files[fh].present
    THEN Cache([c.files EXCEPT ![fh].n = @ + 1], c.past, c.closed)
    ELSE IF fh \in c.closed
    THEN Cache([c.files EXCEPT ![fh] = Entry(TRUE, 1)], Append(c.past, fh),
               c.closed \ {fh})
    ELSE c

\* The cache after close(filehandle)
AfterClose(c, fh, limit) ==
    IF c.files[fh].present
    THEN Trim(Cache([c.files EXCEPT ![fh].n = @ - 1], c.past, c.closed),
              limit, 0, Len(c.past))
    ELSE c

\* filecache.open(filehandle) by a reader
CacheOpen(r, fh) ==
    /\ holding[r] = 0
    /\ holding' = [holding EXCEPT ![r] = fh]
    /\ refs' = [refs EXCEPT ![fh] = @ + 1]
    /\ SetCacheTo(AfterOpen(TheCache, fh))
    /\ UNCHANGED cachesize
    /\ UNCHANGED <<chainvars, frame, headvars, tilevars, stripvars, tagvars,
                 late>>

\* filecache.close(filehandle) by the reader that opened it
CacheClose(r) ==
    /\ holding[r] # 0
    /\ holding' = [holding EXCEPT ![r] = 0]
    /\ refs' = [refs EXCEPT ![holding[r]] = @ - 1]
    /\ SetCacheTo(AfterClose(TheCache, holding[r], cachesize))
    /\ UNCHANGED cachesize
    /\ UNCHANGED <<chainvars, frame, headvars, tilevars, stripvars, tagvars,
                 late>>

\* filecache.clear()
CacheClear ==
    /\ SetCacheTo(ClearAll(TheCache, Handles))
    /\ UNCHANGED <<cachesize, holding, refs>>
    /\ UNCHANGED <<chainvars, frame, headvars, tilevars, stripvars, tagvars,
                 late>>

----------------------------------------------------------------------------
(* stack_pages: func opens the file handle of every page through a cache,  *)
(* reads the page and closes the handle through the cache, on the caller   *)
(* or on the threads of a pool; the cache is cleared at the end.           *)

\* The most pages of a stack.
MaxStack == 2

\* "size=max(4, maxworkers)"
MinCacheSize == 4

\* A page of the stack: the handle of its file, and whether its asarray
\* raises.
StackPage(fh, fails) == [fh |-> fh, fails |-> fails]

IdleStack ==
    /\ stack = [pages |-> <<>>, maxworkers |-> 1, closed |-> {}]
    /\ stackpc = "idle"
    /\ nextpage = 0
    /\ working = [w \in Readers |-> 0]
    /\ fhlock = "NullContext"

\* stack_pages(pages, maxworkers) on two or more pages of files whose
\* handles are open or closed; FileHandle.__init__ sets a NullContext lock,
\* and the cache is not made yet.
InitStack ==
    /\ stack \in [pages : UNION { [1..n -> { StackPage(fh, fails) :
                                               fh \in Handles,
                                               fails \in BOOLEAN }] :
                                   n \in 2..MaxStack },
                   maxworkers : 1..MaxReaders,
                   closed : SUBSET Handles]
    /\ stackpc = "start"
    /\ nextpage = 0
    /\ working = [w \in Readers |-> 0]
    /\ fhlock = "NullContext"
    /\ openfiles = [h \in Handles |-> Entry(FALSE, 0)]
    /\ past = <<>>
    /\ closed = stack.closed
    /\ cachesize = 0
    /\ holding = [r \in Readers |-> 0]
    /\ refs = [h \in Handles |-> 0]
    /\ closedby = {}

\* "page0.parent.filehandle.lock = None"
LockReset(l) == "NullContext"

\* "page0.parent.filehandle.lock = maxworkers > 1" and the OpenFileCache
StackBegin ==
    /\ stackpc = "start"
    /\ stackpc' = "map"
    /\ fhlock' = IF stack.maxworkers > 1 THEN "RLock" ELSE "NullContext"
    /\ cachesize' = Max(MinCacheSize, stack.maxworkers)
    /\ UNCHANGED <<stack, nextpage, working>>
    /\ UNCHANGED <<openfiles, past, closed, holding, refs, closedby>>
    /\ UNCHANGED <<chainvars, frame, headvars, tilevars, stripvars, tagvars,
                   readvars>>

\* func takes the next page: filecache.open(page.parent.filehandle).  The
\* caller is worker 1; a pool has maxworkers threads.
FuncOpen(w) ==
    /\ stackpc = "map"
    /\ w <= stack.maxworkers
    /\ working[w] = 0
    /\ nextpage < Len(stack.pages)
    /\ nextpage' = nextpage + 1
    /\ working' = [working EXCEPT ![w] = nextpage + 1]
    /\ holding' = [holding EXCEPT ![w] = stack.pages[nextpage + 1].fh]
    /\ refs' = [refs EXCEPT ![stack.pages[nextpage + 1].fh] = @ + 1]
    /\ SetCacheTo(AfterOpen(TheCache, stack.pages[nextpage + 1].fh))
    /\ UNCHANGED <<stack, stackpc, fhlock, cachesize>>
    /\ UNCHANGED <<chainvars, frame, headvars, tilevars, stripvars, tagvars,
                   readvars>>

\* page.asarray returns: filecache.close(page.parent.filehandle)
FuncReturn(w) ==
    /\ stackpc = "map"
    /\ working[w] # 0
    /\ ~stack.pages[working[w]].fails
    /\ working' = [working EXCEPT ![w] = 0]
    /\ holding' = [holding EXCEPT ![w] = 0]
    /\ refs' = [refs EXCEPT ![holding[w]] = @ - 1]
    /\ SetCacheTo(AfterClose(TheCache, holding[w], cachesize))
    /\ UNCHANGED <<stack, stackpc, nextpage, fhlock, cachesize>>
    /\ UNCHANGED <<chainvars, frame, headvars, tilevars, stripvars, tagvars,
                   readvars>>

\* page.asarray raises: func ends before its filecache.close.  On the
\* caller the exception leaves stack_pages; on a thread of the pool it
\* stays in the future, which nothing reads.
FuncRaise(w) ==
    /\ stackpc = "map"
    /\ working[w] # 0
    /\ stack.pages[working[w]].fails
    /\ working' = [working EXCEPT ![w] = 0]
    /\ holding' = [holding EXCEPT ![w] = 0]
    /\ stackpc' = IF stack.maxworkers < 2 THEN "raised" ELSE stackpc
    /\ UNCHANGED <<stack, nextpage, fhlock>>
    /\ UNCHANGED <<openfiles, past, cachesize, closed, refs, closedby>>
    /\ UNCHANGED <<chainvars, frame, headvars, tilevars, stripvars, tagvars,
                   readvars>>

\* The loop or the pool is done: filecache.clear(), the lock is set to
\* None, and stack_pages returns.
StackReturn ==
    /\ stackpc = "map"
    /\ nextpage = Len(stack.pages)
    /\ \A w \in Readers : working[w] = 0
    /\ stackpc' = "returned"
    /\ fhlock' = LockReset(fhlock)
    /\ SetCacheTo(ClearAll(TheCache, Handles))
    /\ UNCHANGED <<stack, nextpage, working>>
    /\ UNCHANGED <<cachesize, holding, refs>>
    /\ UNCHANGED <<chainvars, frame, headvars, tilevars, stripvars, tagvars,
                   readvars>>

----------------------------------------------------------------------------
(* TiffPage.__init__: the loop that fills the tag mapping.                 *)

MaxTags == 4

\* "i = 1": the number appended to a name that is taken
FirstSuffix == 1

\* The names of the tags of a directory; "" stands for an entry that
\* TiffTag rejects with TiffFileError.
TagNames == {"ImageDescription", "Software", ""}

\* A key of the mapping: the tag name, and the number appended to it (0 for
\* the name itself).
TagKey(tagname, i) == <<tagname, i>>

\* "name not in tags"
NotInTags(key) == \A t \in tags : t.name # key

\* "tags[name] = tag", tag being the entry at the position of the loop
StoreTag(key) ==
    tags' = { t \in tags : t.name # key }
                \cup {[name |-> key, entry |-> tagindex + 1]}

IdleTags ==
    /\ dirtags = <<>>
    /\ tags = {}
    /\ tagindex = 0
    /\ tagpc = "idle"
    /\ name = <<>>

\* TiffPage(parent, index) at a directory of 1 to MaxTags entries
InitTags ==
    /\ dirtags \in UNION { [1..n -> TagNames] : n \in 1..MaxTags }
    /\ tags = {}
    /\ tagindex = 0
    /\ tagpc = "for"
    /\ name = <<>>

\* One round of "for _ in range(tagno)" up to the while loop: an entry that
\* cannot be parsed is skipped, a name that is new is stored.
ReadTag ==
    /\ tagpc = "for"
    /\ tagindex < Len(dirtags)
    /\ IF dirtags[tagindex + 1] = ""
       THEN /\ tagindex' = tagindex + 1
            /\ UNCHANGED <<tags, tagpc>>
       ELSE IF NotInTags(TagKey(dirtags[tagindex + 1], 0))
       THEN /\ StoreTag(TagKey(dirtags[tagindex + 1], 0))
            /\ tagindex' = tagindex + 1
            /\ UNCHANGED tagpc
       ELSE /\ tagpc' = "while"
            /\ UNCHANGED <<tags, tagindex>>
    /\ UNCHANGED <<dirtags, name>>
    /\ UNCHANGED <<chainvars, frame, headvars, tilevars, stripvars, cachevars,
                 late>>

\* "name = '%s%i' % (tagname, i)" at the head of a round of the while
\* loop; i is 1 in every round.
FormName ==
    /\ tagpc = "while"
    /\ name' = TagKey(dirtags[tagindex + 1], FirstSuffix)
    /\ tagpc' = "if"
    /\ UNCHANGED <<dirtags, tags, tagindex>>
    /\ UNCHANGED <<chainvars, frame, headvars, tilevars, stripvars, cachevars,
                 late>>

\* "if name not in tags: tags[name] = tag; break"
StoreSuffixed ==
    /\ tagpc = "if"
    /\ NotInTags(name)
    /\ StoreTag(name)
    /\ tagindex' = tagindex + 1
    /\ tagpc' = "for"
    /\ UNCHANGED <<dirtags, name>>
    /\ UNCHANGED <<chainvars, frame, headvars, tilevars, stripvars, cachevars,
                 late>>

\* The name is taken: the while loop goes round again.
TryAgain ==
    /\ tagpc = "if"
    /\ ~NotInTags(name)
    /\ tagpc' = "while"
    /\ UNCHANGED <<dirtags, tags, tagindex, name>>
    /\ UNCHANGED <<chainvars, frame, headvars, tilevars, stripvars, cachevars,
                 late>>

\* The for loop has run through the directory.
TagsDone ==
    /\ tagpc = "for"
    /\ tagindex = Len(dirtags)
    /\ tagpc' = "done"
    /\ UNCHANGED <<dirtags, tags, tagindex, name>>
    /\ UNCHANGED <<chainvars, frame, headvars, tilevars, stripvars, cachevars,
                 late>>

----------------------------------------------------------------------------
(* buffered_read: the generator that reads the segments of a page in       *)
(* batches, and the thread that takes the segments from it.  The lock is   *)
(* the re-entrant lock of the file handle, which a second thread takes and *)
(* gives back as well.                                                     *)

MaxSegments == 3
\* buffersize, which is 2**26 in the program
MaxBuffer == 2

\* The places in the file where a segment can lie; 0 marks a missing one.
SegmentOffsets == {0, 8, 10, 12}

\* What "with lock:" leaves the lock as when the block is left: free.
ExitKeeps(holder) == holder
Exit(holder) == "none"

\* "size < buffersize and i < length"
BatchOpen == bufsize < MaxBuffer /\ nextseg < Len(segs)

IdleReads ==
    /\ segs = <<>>
    /\ readpc = "done"
    /\ nextseg = 0
    /\ buffered = <<>>
    /\ bufsize = 0
    /\ lock = "none"
    /\ readlog = <<>>

\* buffered_read(fh, lock, offsets, bytecounts) for the segments of a page:
\* the offsets differ unless they are 0, in any order.
InitReads ==
    /\ segs \in UNION { [1..n -> SegmentOffsets \X (0..2)] :
                          n \in 1..MaxSegments }
    /\ \A j, k \in 1..Len(segs) :
          (j # k /\ segs[j][1] # 0) => segs[j][1] # segs[k][1]
    /\ readpc = "while"
    /\ nextseg = 0
    /\ buffered = <<>>
    /\ bufsize = 0
    /\ lock = "none"
    /\ readlog = <<>>

\* "while i < length: data = []; with lock: size = 0": the reader waits
\* for the lock and begins a batch, or the generator is exhausted.
EnterLock ==
    /\ readpc = "while"
    /\ IF nextseg < Len(segs)
       THEN /\ lock = "none"
            /\ lock' = "reader"
            /\ buffered' = <<>>
            /\ bufsize' = 0
            /\ readpc' = "with"
       ELSE /\ readpc' = "done"
            /\ UNCHANGED <<lock, buffered, bufsize>>
    /\ UNCHANGED <<segs, nextseg, readlog>>
    /\ UNCHANGED <<chainvars, frame, headvars, tilevars, stripvars, cachevars,
                   tagvars, stackvars>>

\* One round of the inner loop: fh.seek(offsets[i]); fh.read(bytecount) for
\* a segment that has an offset and a bytecount, None for one that has not.
ReadSegment ==
    /\ readpc = "with"
    /\ BatchOpen
    /\ LET seg == segs[nextseg + 1] IN
       IF seg[1] > 0 /\ seg[2] > 0
       THEN /\ readlog' = Append(readlog, [offset |-> seg[1], held |-> lock])
            /\ buffered' = Append(buffered, nextseg)
            /\ bufsize' = bufsize + seg[2]
       ELSE /\ buffered' = Append(buffered, -1)
            /\ UNCHANGED <<readlog, bufsize>>
    /\ nextseg' = nextseg + 1
    /\ UNCHANGED <<segs, readpc, lock>>
    /\ UNCHANGED <<chainvars, frame, headvars, tilevars, stripvars, cachevars,
                   tagvars, stackvars>>

\* The inner loop ends and the with block is left.
ExitLock ==
    /\ readpc = "with"
    /\ ~BatchOpen
    /\ lock' = Exit(lock)
    /\ readpc' = "for"
    /\ UNCHANGED <<segs, nextseg, buffered, bufsize, readlog>>
    /\ UNCHANGED <<chainvars, frame, headvars, tilevars, stripvars, cachevars,
                   tagvars, stackvars>>

\* "for segment in data: yield segment": the generator hands the next
\* segment to the thread that iterates, which decodes it, or the batch is
\* used up.
YieldSegment ==
    /\ readpc = "for"
    /\ IF buffered # <<>>
       THEN readpc' = "yield"
       ELSE readpc' = "while"
    /\ UNCHANGED <<segs, nextseg, buffered, bufsize, lock, readlog>>
    /\ UNCHANGED <<chainvars, frame, headvars, tilevars, stripvars, cachevars,
                   tagvars, stackvars>>

\* The thread that iterates has decompressed and unpacked the segment and
\* asks for the next.
DecodeSegment ==
    /\ readpc = "yield"
    /\ buffered' = Tail(buffered)
    /\ readpc' = "for"
    /\ UNCHANGED <<segs, nextseg, bufsize, lock, readlog>>
    /\ UNCHANGED <<chainvars, frame, headvars, tilevars, stripvars, cachevars,
                   tagvars, stackvars>>

\* A second thread takes the lock when it is free, and gives it back.
OtherThread ==
    /\ lock # "reader"
    /\ lock' = IF lock = "none" THEN "other" ELSE "none"
    /\ UNCHANGED <<segs, readpc, nextseg, buffered, bufsize, readlog>>
    /\ UNCHANGED <<chainvars, frame, headvars, tilevars, stripvars, cachevars,
                   tagvars, stackvars>>

IdleLate == IdleReads /\ IdleStack

IdleRest == IdleStrips /\ IdleCache /\ IdleTags /\ IdleLate

----------------------------------------------------------------------------
(* The chain of a short file under every operation.                        *)

Init == InitChain(SessionFiles) /\ IdleFrame /\ IdleHeader /\ IdleTiles /\ IdleRest

Next ==
    \/ PageCount
    \/ \E key \in Keys : GetPage(key)
    \/ \E index \in Keys : SetKeyframe(index)
    \/ \E value \in BOOLEAN : SetCache(value)
    \/ \E value \in BOOLEAN : SetUseframes(value)

Spec == Init /\ [][Next]_vars

----------------------------------------------------------------------------
(* The walk: short and long chains under page(index) and pageCount.        *)

InitWalk == InitChain(WalkFiles) /\ IdleFrame /\ IdleHeader /\ IdleTiles /\ IdleRest

NextWalk ==
    \/ PageCount
    \/ \E key \in WalkKeys : GetPage(key)

SpecWalk == InitWalk /\ [][NextWalk]_vars

----------------------------------------------------------------------------
(* A frame and the keyframes the caller assigns to it.                     *)

InitFrame == InitChain(SessionFiles) /\ IdleFrame /\ IdleHeader /\ IdleTiles /\ IdleRest

NextFrame ==
    \/ \E index \in 0..(MaxDirs - 1) :
       \E kf \in Keyframes(file) \cup {None} : NewFrame(index, kf)
    \/ \E kf \in Keyframes(file) \cup {None} : AssignKeyframe(kf)

SpecFrame == InitFrame /\ [][NextFrame]_vars

----------------------------------------------------------------------------
(* The header of every file of the header model.                           *)

IdleChain == InitChain({File(1, "zero", 0, -1, "tagno", MaxTagno, FALSE,
                             FALSE, 0, FALSE)})

InitHead == IdleChain /\ IdleFrame /\ InitHeader /\ IdleTiles /\ IdleRest

NextHead == \E is_ndpi \in BOOLEAN : OpenFile(is_ndpi)

SpecHead == InitHead /\ [][NextHead]_vars

----------------------------------------------------------------------------
(* The tiles of a page under one asarray call.                             *)

InitDecode == IdleChain /\ IdleFrame /\ IdleHeader /\ InitTiles /\ IdleRest

NextDecode ==
    \/ \E workers \in 1..MaxWorkers : \E byte \in {0, 255} :
           Asarray(workers, byte)
    \/ DecodeNext
    \/ DecodeFirst
    \/ WorkerStart
    \/ \E tileindex \in 1..(MaxTiles - 1) : WorkerDecode(tileindex)
    \/ Return

SpecDecode == InitDecode /\ [][NextDecode]_vars

\* The same calls on pages with a tile that fails to decode.
InitFailing ==
    /\ IdleChain /\ IdleFrame /\ IdleHeader /\ IdleRest
    /\ tilepage \in FailingPages
    /\ out = <<>> /\ fill = 0 /\ order = <<>> /\ running = {}
    /\ maxworkers = 0 /\ phase = "idle" /\ raised = "" /\ futures = {}

SpecFailing == InitFailing /\ [][NextDecode]_vars

----------------------------------------------------------------------------
(* Every page in strips under every request.                               *)

InitReadStrips ==
    /\ IdleChain /\ IdleFrame /\ IdleHeader /\ IdleTiles /\ IdleCache
    /\ IdleTags /\ IdleLate /\ InitStrips

NextStrips == \E req \in Requests : PageAsarray(req)

SpecStrips == InitReadStrips /\ [][NextStrips]_vars

\* The property is_memmappable of every page.
InitMemmappable ==
    /\ IdleChain /\ IdleFrame /\ IdleHeader /\ IdleTiles /\ IdleCache
    /\ IdleTags /\ IdleLate /\ InitMemmapPages

NextMemmappable == IsMemmappable

SpecMemmappable == InitMemmappable /\ [][NextMemmappable]_vars

\* One asarray call on a page in tiles or on a page in strips.
InitAsarray ==
    /\ IdleChain /\ IdleFrame /\ IdleHeader /\ IdleCache /\ IdleTags
    /\ IdleLate
    /\ \/ InitTiles /\ IdleStrips
       \/ IdleTiles /\ InitStrips

\* The caller reads one of its two pages.
NextAsarray ==
    \/ result = NoResult /\ NextDecode
    \/ phase = "idle" /\ NextStrips

SpecAsarray == InitAsarray /\ [][NextAsarray]_vars

----------------------------------------------------------------------------
(* Readers that open and close file handles through one cache.             *)

InitReaders ==
    /\ IdleChain /\ IdleFrame /\ IdleHeader /\ IdleTiles /\ IdleStrips
    /\ IdleTags /\ IdleLate /\ InitCache

NextReaders ==
    \/ \E r \in Readers : \E fh \in Handles : CacheOpen(r, fh)
    \/ \E r \in Readers : CacheClose(r)
    \/ CacheClear

SpecReaders == InitReaders /\ [][NextReaders]_vars

----------------------------------------------------------------------------
(* The chain of a short file under the operations above and _load, _clear, *)
(* iteration and _load_virtual_frames.                                     *)

MaxLoadDirs == 2

InitLoad ==
    /\ InitChain({ f \in SessionFiles : f.n <= MaxLoadDirs })
    /\ IdleFrame /\ IdleHeader /\ IdleTiles /\ IdleRest

NextLoad ==
    \/ PageCount
    \/ \E key \in Keys : GetPage(key)
    \/ \E index \in Keys : SetKeyframe(index)
    \/ \E value \in BOOLEAN : SetCache(value)
    \/ \E value \in BOOLEAN : SetUseframes(value)
    \/ \E usekf \in BOOLEAN : Load(usekf)
    \/ \E fully \in BOOLEAN : ClearPages(fully)
    \/ Iterate
    \/ LoadVirtualFrames

SpecLoad == InitLoad /\ [][NextLoad]_vars

\* The chain of a file that is long enough for virtual frames.
\* _load_virtual_frames reads pages[4]: the chain needs 5 slots.
VirtualDirs == 5

VirtualFiles ==
    UNION { { File(n, "zero", 0, -1, "tagno", MaxTagno, scanimage, FALSE, 0,
                   contig) :
                scanimage \in BOOLEAN, contig \in BOOLEAN }
            \cup
            { File(n, "zero", 0, special, kind, MaxTagno, FALSE, FALSE, 0,
                   contig) :
                special \in 1..2, kind \in {"width", "nseg"},
                contig \in BOOLEAN }
          : n \in {VirtualDirs} }

VirtualKeys == {0, 1, 2, VirtualDirs}

InitVirtual ==
    /\ InitChain(VirtualFiles)
    /\ IdleFrame /\ IdleHeader /\ IdleTiles /\ IdleRest

NextVirtual ==
    \/ \E key \in VirtualKeys : GetPage(key)
    \/ \E index \in VirtualKeys : SetKeyframe(index)
    \/ \E value \in BOOLEAN : SetCache(value)
    \/ \E value \in BOOLEAN : SetUseframes(value)
    \/ \E fully \in BOOLEAN : ClearPages(fully)
    \/ LoadVirtualFrames

SpecVirtual == InitVirtual /\ [][NextVirtual]_vars

\* The chain of a short file under _getlist and the setters.
NextList ==
    \/ \E key \in Keys : GetPage(key)
    \/ \E index \in Keys : SetKeyframe(index)
    \/ \E value \in BOOLEAN : SetCache(value)
    \/ \E value \in BOOLEAN : SetUseframes(value)
    \/ \E key \in ListKeys : \E useframes \in BOOLEAN :
           \E validate \in BOOLEAN : CallGetList(key, useframes, validate)

SpecList == InitLoad /\ [][NextList]_vars

\* The same chain under keyframe assignments, _getlist, the cache and
\* useframes setters and _clear.
NextCursor ==
    \/ \E key \in Keys : GetPage(key)
    \/ \E index \in Keys : SetKeyframe(index)
    \/ \E value \in BOOLEAN : SetCache(value)
    \/ \E value \in BOOLEAN : SetUseframes(value)
    \/ \E key \in ListKeys : \E useframes \in BOOLEAN :
           \E validate \in BOOLEAN : CallGetList(key, useframes, validate)
    \/ \E fully \in BOOLEAN : ClearPages(fully)

SpecCursor == InitLoad /\ [][NextCursor]_vars

\* The chain of a short file under _getitem with a fingerprint.
Fingerprints == 0..3

NextValidate ==
    \/ \E key \in Keys : \E h \in Fingerprints : GetValidated(key, h)
    \/ \E value \in BOOLEAN : SetCache(value)
    \/ \E value \in BOOLEAN : SetUseframes(value)
    \/ \E usekf \in BOOLEAN : Load(usekf)

SpecValidate == InitLoad /\ [][NextValidate]_vars

----------------------------------------------------------------------------
(* One call of stack_pages on every stack of a few pages.                  *)

InitStacking ==
    /\ IdleChain /\ IdleFrame /\ IdleHeader /\ IdleTiles /\ IdleStrips
    /\ IdleTags /\ IdleReads /\ InitStack

NextStacking ==
    \/ StackBegin
    \/ \E w \in Readers : FuncOpen(w)
    \/ \E w \in Readers : FuncReturn(w)
    \/ \E w \in Readers : FuncRaise(w)
    \/ StackReturn

SpecStacking == InitStacking /\ [][NextStacking]_vars

----------------------------------------------------------------------------
(* One call of buffered_read on every list of a few segments.              *)

InitBuffered ==
    /\ IdleChain /\ IdleFrame /\ IdleHeader /\ IdleTiles /\ IdleStrips
    /\ IdleCache /\ IdleTags /\ InitReads /\ IdleStack

NextBuffered ==
    \/ EnterLock
    \/ ReadSegment
    \/ ExitLock
    \/ YieldSegment
    \/ DecodeSegment
    \/ OtherThread

SpecBuffered == InitBuffered /\ [][NextBuffered]_vars

----------------------------------------------------------------------------
(* The construction of a TiffPage from every directory of a few entries.   *)
(* The constructor runs on the thread that called it, which keeps running. *)

InitDirectory ==
    /\ IdleChain /\ IdleFrame /\ IdleHeader /\ IdleTiles /\ IdleStrips
    /\ IdleCache /\ IdleLate /\ InitTags

NextTags ==
    \/ ReadTag
    \/ FormName
    \/ StoreSuffixed
    \/ TryAgain
    \/ TagsDone

SpecTags == InitDirectory /\ [][NextTags]_vars /\ WF_vars(NextTags)

----------------------------------------------------------------------------
(* Claims about the walk.                                                  *)

\* The directory of f whose tag count is above the ceiling or unreadable.
HasCorruptDir(f) ==
    f.special # -1 /\ f.kind = "tagno"
        /\ (f.tagno = Unreadable \/ f.tagno > MaxTagno)

\* N directories linked by next-offsets and ended by next-offset 0.
ZeroTerminated(f) == f.term = "zero" /\ ~HasCorruptDir(f)

\* The last operation walked the chain.
Walked == last.op \in {"len", "getitem"} /\ last.parsed # <<>>

\* C1: for a file whose chain has N >= 1 directories ended by next-offset 0,
\* len(pages) returns N, whatever calls preceded it, in every dialect.
C1_PageCountIsN ==
    (last.op = "len" /\ ZeroTerminated(file))
        => (last.err = "none" /\ last.count = file.n)

\* C2: on a zero-terminated chain of N directories, resolving an index >= N
\* raises IndexError('index out of range'), leaves the chain indexed with
\* exactly N slots and leaves every slot that existed before unchanged.
C2_IndexPastEnd ==
    [][(last'.op = "getitem" /\ last'.arg >= file.n /\ ZeroTerminated(file))
       => /\ last'.err = "IndexError: index out of range"
          /\ indexed'
          /\ Len(pages') = file.n
          /\ \A i \in 1..Len(pages) :
                 i <= Len(pages') /\ pages'[i] = pages[i]]_chainvars

\* C4: walking a chain in which directory k's next-offset is the offset of
\* an earlier directory j < k raises TiffFileError('invalid circular IFD
\* reference') once the walk is past the hop threshold, under every sequence
\* of calls that drives the walk there.
C4_CycleRaises ==
    (file.term = "cycle" /\ file.target < file.n - 1 /\ Walked
        /\ Len(pages) > HopThreshold)
        => last.err = "TiffFileError: invalid circular IFD reference"

\* C5: when the walk reaches a directory whose tag count is above 4096 or
\* cannot be read, it ends without raising, the slot is dropped, the chain is
\* indexed and the page count is the number of directories before it, in
\* every dialect.
C5_CorruptEndsWalk ==
    (HasCorruptDir(file) /\ file.term = "zero" /\ last.op = "len")
        => /\ last.err = "none"
           /\ indexed
           /\ last.count = file.special
           /\ Len(pages) = file.special

----------------------------------------------------------------------------
(* Claims about the chain and its session state.                           *)

C7_IncompatibleWidth ==
    [][(last'.op = "getitem" /\ last'.made /\ tiffpage = "TiffFrame"
          /\ WidthAt(file, SlotOffset(pages'[last'.index + 1]))
                # ImageWidth(file, keyframe))
       => /\ last'.err = "RuntimeError: incompatible keyframe"
          /\ last'.ret = NoRec
          /\ \A i \in 1..Len(pages) :
                 i <= Len(pages') /\ pages'[i] = pages[i]
          /\ \A i \in (Len(pages) + 1)..Len(pages') :
                 pages'[i].k = "off"]_chainvars

\* A frame was refused for its width.
C7_Witness ==
    /\ last.op = "getitem"
    /\ last.made
    /\ tiffpage = "TiffFrame"
    /\ last.err = "RuntimeError: incompatible keyframe"
    /\ WidthAt(file, SlotOffset(pages[last.index + 1]))
          # ImageWidth(file, keyframe)

----------------------------------------------------------------------------
(* Claims about the header.                                                *)

\* The descriptor that the header bytes h stand for: 'II' or 'MM', then 42,
\* or 43 with offset size 8 and a reserved field of 0; "none" for every
\* other sequence of bytes.
Selected(h) ==
    LET first(n) == SubSeq(h, 1, Min(n, Len(h))) IN
    IF first(4) = <<ByteI, ByteI, VersionClassic, 0>> THEN "CLASSIC_LE"
    ELSE IF first(4) = <<ByteM, ByteM, 0, VersionClassic>> THEN "CLASSIC_BE"
    ELSE IF first(8) = <<ByteI, ByteI, VersionBig, 0, BigOffsetSize, 0, 0, 0>>
    THEN "BIG_LE"
    ELSE IF first(8) = <<ByteM, ByteM, 0, VersionBig, 0, BigOffsetSize, 0, 0>>
    THEN "BIG_BE"
    ELSE "none"

TiffFileErrors ==
    {"TiffFileError: not a TIFF file", "TiffFileError: invalid TIFF file",
     "TiffFileError: invalid BigTIFF file"}

\* C6: TiffFile opened with no flags selects the descriptor that the header
\* bytes stand for, and fails with TiffFileError, and no other error, on
\* every other sequence of bytes.
C6_HeaderSelects ==
    (tifffile.opened /\ ~tifffile.is_ndpi)
    => IF Selected(filebytes) # "none"
       THEN tifffile.tiff = Selected(filebytes) /\ tifffile.err = "none"
       ELSE tifffile.tiff = "none" /\ tifffile.err \in TiffFileErrors

----------------------------------------------------------------------------
(* Claims about a frame and its keyframe.                                  *)

----------------------------------------------------------------------------
(* Claims about the tiles.                                                 *)

\* C10: a decode of a tiled page with maxworkers > 1 returns the array that
\* maxworkers == 1 returns, in every order in which the threads complete:
\* the region of a tile is a function of its index and of the layout, the
\* regions of two tiles share no cell, and what a completed tile wrote
\* stays as written while the others complete.  (The page of a call never
\* changes, so its regions are compared once, before the call.)
C10_ParallelEqualsSequential ==
    /\ phase = "idle"
       => \A i \in 0..(NumTiles(tilepage) - 1) :
          \A j \in (i + 1)..(NumTiles(tilepage) - 1) :
              Region(tilepage, i) \cap Region(tilepage, j) = {}
    /\ (phase # "idle" /\ maxworkers > 1)
       => \E array \in {DecodeInOrder(tilepage, Filled(tilepage, fill),
                                      NumTiles(tilepage))} :
          /\ phase = "returned" => out = array
          /\ \A k \in 1..Len(order) :
             \A c \in Region(tilepage, order[k]) : out[c] = array[c]

\* A decode returned in which a thread completed a tile before a tile of a
\* lower index, on a page with a tile cut off at the border of the image.
C10_Witness ==
    /\ phase = "returned"
    /\ maxworkers > 1
    /\ \E k \in 1..(Len(order) - 1) : order[k] > order[k + 1]
    /\ \E i \in 0..(NumTiles(tilepage) - 1) :
           Cardinality(Region(tilepage, i)) < TileSize(tilepage)
    /\ out = DecodeInOrder(tilepage, Filled(tilepage, fill),
                           NumTiles(tilepage))

----------------------------------------------------------------------------
(* Claims about a page in strips.                                          *)

\* The value asarray owes for sample k of strip i: the stored sample with
\* the predictor undone along its row.
Decoded(s, i, k) ==
    IF s.predictor = 1 THEN StripSamples(s, i)[k]
    ELSE RowSum(StripSamples(s, i), s.imagewidth, k)

\* C11: for a page with one segment of byte count 0 or offset 0, asarray
\* returns an array in which that segment's region holds the nodata
\* sentinel and every other region holds the data of its own segment.
C11_NodataInItsRegion ==
    (result.req # "" /\ strippage.missing >= 0) =>
        /\ result.err = ""
        /\ \A i \in 0..(NumStrips(strippage) - 1) :
               \A k \in 1..Len(StripSamples(strippage, i)) :
                   result.data[i * StripSize(strippage) + k] =
                       IF i = strippage.missing THEN NoData
                       ELSE Decoded(strippage, i, k)

\* C11 on the path that reads strip by strip, where it holds.
C11_NodataOnStripPath ==
    (result.path = "segments" /\ strippage.missing >= 0) =>
        C11_NodataInItsRegion

\* C15: the memory map of the file is taken exactly when out is 'memmap' and
\* the page is memory-mappable, the contiguous read exactly when that is not
\* so and the page is contiguous, the strips otherwise; and without a request
\* for a memory map the array is never backed by the file.
C15_PathPriority ==
    result.req # "" =>
        LET mapped == result.req = "memmap" /\ is_memmappable(strippage)
            contig == is_contiguous(strippage).some
        IN  /\ result.path = "memmap" <=> mapped
            /\ result.path = "contiguous" <=> (~mapped /\ contig)
            /\ result.path = "segments" <=> (~mapped /\ ~contig)
            /\ result.req # "memmap" => result.backing # "file"

\* A memory map was asked for and the array is the file's own bytes.
C15_Witness ==
    /\ result.req = "memmap"
    /\ result.path = "memmap"
    /\ result.backing = "file"
    /\ result.data = [k \in 1..ImageSize(strippage) |->
                         StripSamples(strippage, 0)[1] + k - 1]

----------------------------------------------------------------------------
(* Claims about tiles that fail to decode.                                 *)

\* C12: when a tile decoded by the pool fails, asarray raises the error to
\* its caller once the dispatched tiles have finished; it never returns the
\* array as if every tile had decoded.
C12_PoolFailureRaises ==
    (maxworkers >= 2 /\ futures # {}) =>
        /\ phase # "returned"
        /\ (Len(order) = NumTiles(tilepage) /\ phase # "decoding") =>
               (phase = "raised" /\ raised # "")

\* C13: with two or more workers tile 0 is decoded by the caller and has
\* returned before the pool takes any tile; when tile 0 fails the error
\* reaches the caller and no tile is dispatched.
C13_FirstTileOnCaller ==
    maxworkers >= 2 =>
        /\ 0 \notin running
        /\ (running # {} \/ order # <<>>) => order[1] = 0
        /\ (Corrupt(tilepage, 0) /\ phase # "decoding") =>
               /\ phase = "raised" /\ raised = "decompress"
               /\ running = {} /\ order = <<>> /\ futures = {}
        /\ (Corrupt(tilepage, 0) /\ phase = "decoding") =>
               (running = {} /\ order = <<>>)

\* Tile 0 of a page of several tiles failed in a call with two workers.
C13_Witness ==
    /\ maxworkers >= 2
    /\ NumTiles(tilepage) > 1
    /\ Corrupt(tilepage, 0)
    /\ phase = "raised"

----------------------------------------------------------------------------
(* Claims about the cache of open files.                                   *)

\* C14: the cache closes a file handle, by the trimming of close or by
\* clear, only when the open calls less the close calls for that handle are
\* 0; no reader holds a handle that is closed.
C14_ClosedOnlyUnreferenced ==
    [][\A fh \in Handles :
           /\ (fh \in closed' /\ fh \notin closed) => refs'[fh] = 0
           /\ \A r \in Readers : holding'[r] = fh => fh \notin closed']_vars

\* The cache has closed one handle while a reader holds another that the
\* cache opened.
C14_Witness ==
    \E r \in Readers : \E fh \in closedby :
        /\ fh \in closed
        /\ holding[r] \notin {0, fh}
        /\ openfiles[holding[r]].present

----------------------------------------------------------------------------
(* Claims about the chain once it is indexed.                              *)

\* C16: once the chain is indexed, no operation on it (len, pages[key],
\* the keyframe, cache and useframes setters, _clear, _load, iteration,
\* _load_virtual_frames) makes it not indexed or changes the number of its
\* slots.
C16_IndexedIsTerminal ==
    [][indexed => (indexed' /\ Len(pages') = Len(pages))]_vars

\* An indexed chain of several slots on which _load or
\* _load_virtual_frames has just run.
C16_Witness ==
    /\ indexed
    /\ Len(pages) > 1
    /\ last.op \in {"load", "virtual"}
    /\ last.parsed = <<>>

----------------------------------------------------------------------------
(* Claims about _getlist.                                                  *)

\* C17: _getlist leaves the keyframe cursor and the useframes mode as it
\* found them, for a key that is None, an integer (0 too), a slice or an
\* iterable, whether it returns or raises.
C17_GetListRestores ==
    [][last'.op = "getlist" => (keyframe' = keyframe /\ tiffpage' = tiffpage)]_vars

----------------------------------------------------------------------------
(* Claims about the tag mapping.                                           *)

\* The entries of the directory that TiffTag accepts.
Parsed == { e \in 1..Len(dirtags) : dirtags[e] # "" }

\* C18: the construction of a TiffPage from a directory in which a tag name
\* occurs k >= 1 times ends, and the mapping then holds every entry under a
\* name of its own, the first of a name under the name itself; this holds
\* for k >= 3 too.
C18_DuplicatesKept ==
    <>(/\ tagpc = "done"
       /\ \A e \in Parsed : \E t \in tags :
              /\ t.entry = e
              /\ t.name[1] = dirtags[e]
              /\ (t.name[2] = 0) <=> (\A d \in 1..(e - 1) :
                                          dirtags[d] # dirtags[e])
       /\ \A t, u \in tags : t.name = u.name => t = u)

----------------------------------------------------------------------------
(* Claims about the ScanImage branch against the generic walk.             *)

\* The chain that the generic branch of _seek builds for the file from its
\* first slot: one directory header read per slot.
ParsedChain(f) ==
    SeekGeneric(f, <<OffsetSlot(Base)>>, -1, MaxPagesCap).pages

\* C19: the chain that the ScanImage branch of _seek computes from the first
\* stride has as many slots as the chain that a slot-by-slot parse of the
\* same file builds, with the same offset in every slot.
C19_FastPathEqualsParse ==
    (file.scanimage /\ indexed /\ last.err = "none") =>
        /\ Len(pages) = Len(ParsedChain(file))
        /\ \A i \in 1..Len(pages) :
               i <= Len(ParsedChain(file))
                   => SlotOffset(pages[i]) = SlotOffset(ParsedChain(file)[i])

----------------------------------------------------------------------------
(* Claims about _getitem with a fingerprint.                               *)

\* The record that _getitem(key) obtains in the state, from the cache or
\* from the file.
PageAt(key) ==
    GetItem(file, pages, indexed, key, cache, tiffpage, keyframe)

\* C20: _getitem(key, validate=h) raises RuntimeError('page hash mismatch')
\* for every integer h that differs from the hash of the page at key, be
\* the page cached or new, and then leaves the slot at key as it was.
C20_MismatchRaises ==
    [][(/\ last'.op = "validate"
        /\ PageAt(last'.arg).err = "none"
        /\ Hash(file, PageAt(last'.arg).ret).err = "none"
        /\ Hash(file, PageAt(last'.arg).ret).value # last'.count)
       => /\ last'.err = "RuntimeError: page hash mismatch"
          /\ IF last'.index < Len(pages)
             THEN pages'[last'.index + 1] = pages[last'.index + 1]
             ELSE pages'[last'.index + 1].k = "off"]_vars

----------------------------------------------------------------------------
(* Claims about the frames of the chain and their keyframes.               *)

\* The frames in the chain that are bound to a keyframe.
BoundFrames ==
    { pages[i] : i \in { j \in 1..Len(pages) :
                           pages[j].k = "frame" /\ pages[j].kfid # 0 } }

\* The number of data offsets a frame was constructed with: those of its
\* directory, or the one offset a virtual frame is given.
GivenOffsets(fr) == IF fr.off = -1 THEN 1 ELSE NSegAt(file, fr.off)

\* The number of data offsets of the keyframe of a frame.
KeyframeOffsets(fr) == NSegAt(file, DirOffset(file, fr.kfindex))

C22_SlotsAreOffsetsOrRecords ==
    /\ \A i \in 1..Len(pages) :
          IsInt(pages[i]) \/ pages[i].k \in {"page", "frame"}
    /\ Len(pages) > 0 => pages[1].k = "page"

----------------------------------------------------------------------------
(* Claims about the predictor.                                             *)

\* The sum of the bytes of q, as a byte: what undoing the horizontal
\* differencing once gives for the last sample of a run q of stored samples
\* that begins at the left edge.
UndoneOnce(q) == SumSeq(q, Len(q)) % 256

\* The buffer asarray assembles for a page in strips before the predictor
\* is undone: the stored samples, and nodata where the strip is missing.
Assembled(s) ==
    [k \in 1..ImageSize(s) |->
        LET i == (k - 1) \div StripSize(s) IN
        IF i = s.missing THEN NoData
        ELSE StripSamples(s, i)[k - i * StripSize(s)]]

\* The stored samples of the row of sample k, up to sample k.
RowUpTo(s, k) ==
    SubSeq(Assembled(s), k - ((k - 1) % s.imagewidth), k)

\* The stored samples of row r of plane d of a tile, up to column c.
TileRowUpTo(tile, d, r, c) == [j \in 1..(c + 1) |-> At(tile, d, r, j - 1)]

\* C23: with a predictor other than 1, every sample asarray returns has the
\* differencing undone exactly once: tile by tile for a page in tiles that
\* is not contiguous, over the whole buffer for a page in strips on the
\* strip path and on the contiguous path; with predictor 1 and on the
\* memory-map path the stored samples are returned as they are.
C23_PredictorUndoneOnce ==
    /\ (result.req # "" /\ result.err = ""
            /\ (strippage.missing = -1 \/ result.path = "segments"))
       => /\ result.path = "memmap" => strippage.predictor = 1
          /\ \A k \in 1..ImageSize(strippage) :
                result.data[k] =
                    IF strippage.predictor = 1 \/ result.path = "memmap"
                    THEN Assembled(strippage)[k]
                    ELSE UndoneOnce(RowUpTo(strippage, k))
    /\ phase = "returned"
       => \A i \in 0..(NumTiles(tilepage) - 1) :
          \A c \in Region(tilepage, i) :
              LET o    == TileOrigin(tilepage, i)
                  seg  == Segment(tilepage, i)
                  tile == Shaped(tilepage, o, seg.data)
              IN  out[c] =
                      IF seg.none THEN NoData
                      ELSE IF tilepage.predictor = 1
                      THEN At(tile, c[2] - o.td, c[3] - o.tl, c[4] - o.tw)
                      ELSE UndoneOnce(TileRowUpTo(tile, c[2] - o.td,
                                                  c[3] - o.tl, c[4] - o.tw))

\* A page of several tiles, each more than one sample wide, with
\* predictor 2 was decoded by threads: its array differs from the stored
\* samples.
C23_Witness ==
    /\ phase = "returned"
    /\ tilepage.predictor = 2
    /\ tilepage.tilewidth > 1
    /\ NumTiles(tilepage) > 1
    /\ maxworkers > 1
    /\ \E c \in Cells(tilepage) : c[4] > 0 /\ out[c] # NoData
    /\ out # DecodeInOrder([tilepage EXCEPT !.predictor = 1],
                           Filled(tilepage, fill), NumTiles(tilepage))

----------------------------------------------------------------------------
(* Claims about buffered_read.                                             *)

\* "offsets[i] > 0 and bytecounts[i] > 0"
HasData(seg) == seg[1] > 0 /\ seg[2] > 0

\* The offsets buffered_read has read from, in the order of the reads.
ReadOffsets == [j \in 1..Len(readlog) |-> readlog[j].offset]

\* Every seek and read was made by the reader inside its with block, and
\* the block is left when a segment is with the decoder.
ReadsUnderLock ==
    /\ \A j \in 1..Len(readlog) : readlog[j].held = "reader"
    /\ readpc \in {"for", "yield", "while", "done"} => lock # "reader"

\* C24: buffered_read reads the segments in ascending order of their file
\* offsets, every seek and read with the lock held, and the lock is
\* released before a segment is yielded to the decoder.
C24_ReadsAscendUnderLock ==
    /\ \A j \in 1..(Len(readlog) - 1) :
          readlog[j].offset < readlog[j + 1].offset
    /\ ReadsUnderLock

\* C24, amended: buffered_read reads the segments in the order of the
\* offsets list, leaving out those without an offset or a bytecount, every
\* seek and read with the lock held, and the lock is released before a
\* segment is yielded to the decoder.
C24_ReadsInListOrderUnderLock ==
    /\ LET read == SelectSeq(SubSeq(segs, 1, nextseg), HasData)
       IN  ReadOffsets = [j \in 1..Len(read) |-> read[j][1]]
    /\ ReadsUnderLock

\* A segment of the second batch is with the decoder while another thread
\* holds the lock, and the reads went down in the file.
C24_Witness ==
    /\ readpc = "yield"
    /\ lock = "other"
    /\ Len(readlog) > Len(buffered)
    /\ \E j \in 1..(Len(readlog) - 1) :
          readlog[j].offset > readlog[j + 1].offset

----------------------------------------------------------------------------
(* Claims about is_memmappable.                                            *)

\* The conditions on the data of the page: contiguous, in fill order 1,
\* predictor 1, not subsampled, and beginning at a multiple of the size of
\* an element.
FinalAndAligned(s) ==
    /\ is_contiguous(s).some
    /\ s.fillorder = 1
    /\ s.predictor = 1
    /\ ~s.is_subsampled
    /\ StripOffsets(s)[1] % s.itemsize = 0

----------------------------------------------------------------------------
(* Claims about the cache switch.                                          *)

\* A resolved record with an offset in the file.
HasFileOffset(s) == ~IsInt(s) /\ s # None /\ s.off # -1

\* C26: switching cache from True to False turns every resolved record with
\* a file offset in the slots after the first into that offset, keeps slot 0
\* resolved, sets the keyframe cursor to slot 0 and leaves the number of
\* slots, the offset of every slot and the indexed flag as they were;
\* switching it from False to True changes no slot.
C26_CacheSwitch ==
    [][/\ (cache /\ Len(pages) > 0 /\ SetCache(FALSE))
          => /\ Len(pages') = Len(pages)
             /\ \A i \in 2..Len(pages) :
                    HasFileOffset(pages[i])
                        => pages'[i] = OffsetSlot(pages[i].off)
             /\ pages'[1] = pages[1]
             /\ pages'[1].k = "page"
             /\ keyframe' = pages'[1]
             /\ \A i \in 1..Len(pages) :
                    SlotOffset(pages'[i]) = SlotOffset(pages[i])
             /\ indexed' = indexed
       /\ (~cache /\ SetCache(TRUE)) => pages' = pages]_vars

\* The cache has just been switched off on a chain of several slots: the
\* slots after the first hold offsets and the cursor is on slot 0.
C26_Witness ==
    /\ last.op = "cache"
    /\ last.arg = 0
    /\ last.err = "none"
    /\ ~cache
    /\ Len(pages) > 2
    /\ \A i \in 2..Len(pages) : IsInt(pages[i])
    /\ keyframe = pages[1]

\* The handles that the cache tracks: the keys of self.files.
Tracked == { fh \in Handles : openfiles[fh].present }

\* At most size handles are tracked, or every tracked handle has a nonzero
\* reference count.
BoundedIdle(fs, p) ==
    \/ Len(p) <= cachesize
    \/ \A fh \in Handles : fs[fh].present => fs[fh].n # 0

\* C27: after every close() call, at most size handles are tracked by the
\* cache or every tracked handle has a nonzero reference count; after
\* clear() no tracked handle has reference count 0.
C27_BoundedAfterEveryClose ==
    [][/\ (\E r \in Readers : CacheClose(r)) => BoundedIdle(openfiles', past')
       /\ CacheClear
              => \A fh \in Handles :
                     openfiles'[fh].present => openfiles'[fh].n # 0]_vars

\* C27, amended: after every close() call for a handle that the cache
\* tracks, at most size handles are tracked or every tracked handle has a
\* nonzero reference count; after clear() no tracked handle has reference
\* count 0.
C27_BoundedAfterTrackedClose ==
    [][/\ (\E r \in Readers :
               CacheClose(r) /\ openfiles[holding[r]].present)
              => BoundedIdle(openfiles', past')
       /\ CacheClear
              => \A fh \in Handles :
                     openfiles'[fh].present => openfiles'[fh].n # 0]_vars

\* The trimming of a close has closed a handle, and the cache still tracks
\* more than size handles, all of them in use.
C27_Witness ==
    /\ \E fh \in closedby : fh \in closed
    /\ Len(past) > cachesize
    /\ \A fh \in Tracked : openfiles[fh].n > 0

\* C28: every call of the walk ends with at most maxpages slots in the
\* chain, having returned or raised, and len(pages) on a chain that runs
\* into a cycle never returns a page count.
C28_WalkEndsAndCycleNotCounted ==
    /\ Len(pages) <= MaxPagesCap
    /\ (last.op = "len" /\ file.term = "cycle") => last.err # "none"

----------------------------------------------------------------------------
(* Claims about the keyframe cursor in every state.                        *)

\* C29: in every state of a chain with at least one page the keyframe
\* cursor is a TiffPage, never a TiffFrame or an offset, and it is the
\* record in the slot of the chain at its index.
C29_CursorIsStoredPage ==
    Len(pages) > 0
        => /\ keyframe.k = "page"
           /\ keyframe.index >= 0
           /\ keyframe.index < Len(pages)
           /\ pages[keyframe.index + 1] = keyframe

\* _getlist has returned a list for several keys while the cursor is on a
\* page after the first, which a keyframe assignment put there.
C29_Witness ==
    /\ last.op = "getlist"
    /\ last.err = "none"
    /\ last.index = 0
    /\ keyframe.k = "page"
    /\ keyframe.index >= 1
    /\ pages[keyframe.index + 1] = keyframe

----------------------------------------------------------------------------
(* Claims about stack_pages.                                               *)

\* C30: when stack_pages has returned or raised, every open call of a
\* worker has been matched by a close call, every handle that was closed
\* and that the cache opened is closed again, and the lock of the parent
\* file handle is the null lock.
C30_StackReleasesAll ==
    stackpc \in {"returned", "raised"}
        => /\ \A fh \in Handles : refs[fh] = 0
           /\ stack.closed \subseteq closed
           /\ fhlock = "NullContext"

=============================================================================
